---- MODULE Spec2Model ----
(***************************************************************************)
(* Model of the market-performance screening engine of trade-volt:         *)
(*   server/app/services/performance_service.py (CacheService,             *)
(*   PerformanceService) and its callers in server/app/api/analysis.py.    *)
(***************************************************************************)
EXTENDS Integers, Sequences, FiniteSets, TLC

\* ------------------------------------------------------------------------
\* Bounds of the model
\* ------------------------------------------------------------------------
\* number of CacheService calls in one behaviour
MaxOps == 3
\* number of clock advances in one behaviour
MaxTicks == 2
\* request threads inside CacheService at the same time
ConcThreads == 2
\* CacheService calls each of those threads makes
MaxCallsPerThread == 2
\* request threads inside get_market_performance_fast
FastThreads == 2
\* get_market_performance_fast calls each of those threads makes
MaxFastCalls == 2
\* chunks of one screening run whose first download attempt goes wrong
MaxBadChunks == 1
\* get_market_performance calls in one behaviour
MaxRequests == 2
\* find_fluctuation_stocks calls in one behaviour
MaxFluctCalls == 2
\* requests at the API boundary in one behaviour
MaxApiRequests == 1
\* _get_tickers_by_market_cached calls each request thread makes
MaxListCalls == 2

\* ------------------------------------------------------------------------
\* Program constants
\* ------------------------------------------------------------------------
\* settings.PERFORMANCE_CACHE_TTL
PERFORMANCE_CACHE_TTL == 3600
\* memory cache size limit in CacheService.set
MemoryCacheLimit == 100
\* maxsize of the lru_cache over _get_tickers_by_market
LruMaxSize == 100
\* settings.PERFORMANCE_MAX_TICKERS, PERFORMANCE_CHUNK_SIZE, PERFORMANCE_MAX_CHUNKS
PERFORMANCE_MAX_TICKERS == 1000
PERFORMANCE_CHUNK_SIZE == 50
PERFORMANCE_MAX_CHUNKS == 20
\* the limits get_market_performance_fast sets
FastMaxTickers == 500
FastChunkSize == 25
FastMaxChunks == 10

\* ------------------------------------------------------------------------
\* Characters and texts.  A text is a sequence of one-character strings.
\* ------------------------------------------------------------------------
PrefixText ==
  <<"m","a","r","k","e","t","_","p","e","r","f","o","r","m","a","n","c","e">>

KOSPI == <<"K","O","S","P","I">>
NASDAQ == <<"N","A","S","D","A","Q">>

\* keyword arguments of a cache call, in the order the caller supplies them:
\* a sequence of <<name, value>> pairs
KwKospi10 ==
  << <<"market", KOSPI>>, <<"start_date", "2024-01-01">>,
     <<"end_date", "2024-06-30">>, <<"top_n", "10">> >>
KwKospi20 ==
  << <<"market", KOSPI>>, <<"start_date", "2024-01-01">>,
     <<"end_date", "2024-06-30">>, <<"top_n", "20">> >>
KwNasdaq10 ==
  << <<"market", NASDAQ>>, <<"start_date", "2024-01-01">>,
     <<"end_date", "2024-06-30">>, <<"top_n", "10">> >>

\* a market the listing sources do not know
LSE == <<"L","S","E">>
KwLse10 ==
  << <<"market", LSE>>, <<"start_date", "2024-01-01">>,
     <<"end_date", "2024-06-30">>, <<"top_n", "10">> >>
\* a start date that is not YYYY-MM-DD, and a period longer than a year
KwKospiBadDate ==
  << <<"market", KOSPI>>, <<"start_date", "2024/01/01">>,
     <<"end_date", "2024-06-30">>, <<"top_n", "10">> >>
KwKospiLong ==
  << <<"market", KOSPI>>, <<"start_date", "2022-01-01">>,
     <<"end_date", "2024-06-30">>, <<"top_n", "10">> >>

ParamSets == {KwKospi10, KwKospi20, KwNasdaq10}

\* market of a keyword-argument set
MarketOf(kwargs) ==
  LET i == CHOOSE j \in 1..Len(kwargs) : kwargs[j][1] = "market"
  IN kwargs[i][2]

\* rank of a keyword name in the lexicographic order json.dumps sorts by
NameRank(n) ==
  CASE n = "end_date" -> 1
    [] n = "market" -> 2
    [] n = "start_date" -> 3
    [] n = "top_n" -> 4

\* json.dumps(kwargs): the pairs in the order the caller supplied them
SortKeys_Unsorted(kwargs) == kwargs

\* json.dumps(kwargs, sort_keys=True): the pairs in ascending order of name
RECURSIVE SortKeys(_)
SortKeys(kwargs) ==
  IF kwargs = <<>> THEN <<>>
  ELSE LET m == CHOOSE i \in 1..Len(kwargs) :
                  \A j \in 1..Len(kwargs) :
                     NameRank(kwargs[i][1]) <= NameRank(kwargs[j][1])
           rest == [k \in 1..(Len(kwargs) - 1) |->
                       IF k < m THEN kwargs[k] ELSE kwargs[k + 1]]
       IN <<kwargs[m]>> \o SortKeys(rest)

\* the pairs of kwargs taken in the given order of positions
Perm(kwargs, order) == [i \in 1..Len(order) |-> kwargs[order[i]]]

\* hashlib.md5(key_data.encode()).hexdigest()[:8] of a dump whose pairs stand
\* in the order key_data lists them; <<3, 1, 2, 4>> is the sorted order
Md5Hex8(key_data) ==
  CASE key_data = Perm(KwKospi10, <<1, 2, 3, 4>>) -> <<"d","e","d","d","4","d","c","8">>
    [] key_data = Perm(KwKospi10, <<1, 2, 4, 3>>) -> <<"a","4","1","0","5","a","c","9">>
    [] key_data = Perm(KwKospi10, <<1, 3, 2, 4>>) -> <<"9","8","1","9","a","7","9","e">>
    [] key_data = Perm(KwKospi10, <<1, 3, 4, 2>>) -> <<"8","c","8","3","2","9","6","4">>
    [] key_data = Perm(KwKospi10, <<1, 4, 2, 3>>) -> <<"1","7","4","b","7","4","d","c">>
    [] key_data = Perm(KwKospi10, <<1, 4, 3, 2>>) -> <<"2","7","2","f","8","9","d","3">>
    [] key_data = Perm(KwKospi10, <<2, 1, 3, 4>>) -> <<"d","8","9","8","4","5","a","4">>
    [] key_data = Perm(KwKospi10, <<2, 1, 4, 3>>) -> <<"b","7","c","a","a","4","2","a">>
    [] key_data = Perm(KwKospi10, <<2, 3, 1, 4>>) -> <<"c","6","4","5","d","a","6","c">>
    [] key_data = Perm(KwKospi10, <<2, 3, 4, 1>>) -> <<"e","8","c","e","0","4","a","9">>
    [] key_data = Perm(KwKospi10, <<2, 4, 1, 3>>) -> <<"3","5","6","3","6","b","0","0">>
    [] key_data = Perm(KwKospi10, <<2, 4, 3, 1>>) -> <<"f","e","3","2","3","d","b","5">>
    [] key_data = Perm(KwKospi10, <<3, 1, 2, 4>>) -> <<"6","f","2","d","9","7","9","4">>
    [] key_data = Perm(KwKospi10, <<3, 1, 4, 2>>) -> <<"2","6","4","7","f","f","0","0">>
    [] key_data = Perm(KwKospi10, <<3, 2, 1, 4>>) -> <<"e","6","4","3","1","b","0","2">>
    [] key_data = Perm(KwKospi10, <<3, 2, 4, 1>>) -> <<"b","0","8","c","5","7","6","0">>
    [] key_data = Perm(KwKospi10, <<3, 4, 1, 2>>) -> <<"3","2","5","b","6","3","6","e">>
    [] key_data = Perm(KwKospi10, <<3, 4, 2, 1>>) -> <<"e","a","7","3","d","3","4","3">>
    [] key_data = Perm(KwKospi10, <<4, 1, 2, 3>>) -> <<"6","c","e","9","6","9","5","6">>
    [] key_data = Perm(KwKospi10, <<4, 1, 3, 2>>) -> <<"1","f","7","7","d","a","9","e">>
    [] key_data = Perm(KwKospi10, <<4, 2, 1, 3>>) -> <<"c","3","4","b","2","b","3","9">>
    [] key_data = Perm(KwKospi10, <<4, 2, 3, 1>>) -> <<"1","8","6","0","3","c","5","e">>
    [] key_data = Perm(KwKospi10, <<4, 3, 1, 2>>) -> <<"5","6","1","0","4","2","7","f">>
    [] key_data = Perm(KwKospi10, <<4, 3, 2, 1>>) -> <<"1","d","f","d","5","4","7","4">>
    [] key_data = Perm(KwNasdaq10, <<1, 2, 3, 4>>) -> <<"1","6","7","8","d","1","2","a">>
    [] key_data = Perm(KwNasdaq10, <<1, 2, 4, 3>>) -> <<"8","4","8","b","3","7","1","3">>
    [] key_data = Perm(KwNasdaq10, <<1, 3, 2, 4>>) -> <<"d","e","4","8","9","f","d","9">>
    [] key_data = Perm(KwNasdaq10, <<1, 3, 4, 2>>) -> <<"b","2","f","0","4","1","3","a">>
    [] key_data = Perm(KwNasdaq10, <<1, 4, 2, 3>>) -> <<"9","e","4","d","2","9","e","4">>
    [] key_data = Perm(KwNasdaq10, <<1, 4, 3, 2>>) -> <<"c","f","0","2","d","8","f","d">>
    [] key_data = Perm(KwNasdaq10, <<2, 1, 3, 4>>) -> <<"5","c","f","8","f","2","4","7">>
    [] key_data = Perm(KwNasdaq10, <<2, 1, 4, 3>>) -> <<"6","0","e","1","b","7","8","a">>
    [] key_data = Perm(KwNasdaq10, <<2, 3, 1, 4>>) -> <<"3","e","2","8","3","4","0","1">>
    [] key_data = Perm(KwNasdaq10, <<2, 3, 4, 1>>) -> <<"a","f","5","1","3","a","7","8">>
    [] key_data = Perm(KwNasdaq10, <<2, 4, 1, 3>>) -> <<"3","b","3","1","0","b","d","3">>
    [] key_data = Perm(KwNasdaq10, <<2, 4, 3, 1>>) -> <<"e","b","7","9","b","8","3","3">>
    [] key_data = Perm(KwNasdaq10, <<3, 1, 2, 4>>) -> <<"7","a","3","6","9","8","b","d">>
    [] key_data = Perm(KwNasdaq10, <<3, 1, 4, 2>>) -> <<"2","2","b","3","1","5","0","1">>
    [] key_data = Perm(KwNasdaq10, <<3, 2, 1, 4>>) -> <<"8","b","1","7","1","2","b","b">>
    [] key_data = Perm(KwNasdaq10, <<3, 2, 4, 1>>) -> <<"0","6","c","3","e","d","9","1">>
    [] key_data = Perm(KwNasdaq10, <<3, 4, 1, 2>>) -> <<"a","1","4","d","4","8","c","0">>
    [] key_data = Perm(KwNasdaq10, <<3, 4, 2, 1>>) -> <<"4","4","e","8","7","b","0","8">>
    [] key_data = Perm(KwNasdaq10, <<4, 1, 2, 3>>) -> <<"b","4","8","3","d","d","f","2">>
    [] key_data = Perm(KwNasdaq10, <<4, 1, 3, 2>>) -> <<"8","c","5","5","6","7","f","1">>
    [] key_data = Perm(KwNasdaq10, <<4, 2, 1, 3>>) -> <<"c","1","1","8","6","8","4","1">>
    [] key_data = Perm(KwNasdaq10, <<4, 2, 3, 1>>) -> <<"b","d","2","3","f","6","f","e">>
    [] key_data = Perm(KwNasdaq10, <<4, 3, 1, 2>>) -> <<"6","1","e","e","a","d","1","d">>
    [] key_data = Perm(KwNasdaq10, <<4, 3, 2, 1>>) -> <<"3","0","2","9","3","9","5","2">>
    [] key_data = Perm(KwKospi20, <<1, 2, 3, 4>>) -> <<"6","c","2","9","4","e","c","5">>
    [] key_data = Perm(KwKospi20, <<3, 1, 2, 4>>) -> <<"5","4","9","a","4","d","e","f">>
    [] key_data = Perm(KwLse10, <<1, 2, 3, 4>>) -> <<"0","1","c","0","1","c","8","6">>
    [] key_data = Perm(KwLse10, <<3, 1, 2, 4>>) -> <<"5","2","5","6","6","f","0","6">>
    [] key_data = Perm(KwKospiBadDate, <<1, 2, 3, 4>>) -> <<"0","7","5","f","3","a","7","8">>
    [] key_data = Perm(KwKospiBadDate, <<3, 1, 2, 4>>) -> <<"2","1","4","c","4","7","3","4">>
    [] key_data = Perm(KwKospiLong, <<1, 2, 3, 4>>) -> <<"0","d","0","6","b","5","7","c">>
    [] key_data = Perm(KwKospiLong, <<3, 1, 2, 4>>) -> <<"f","1","7","f","a","4","b","7">>

\* CacheService._generate_key
GenerateKey(prefix, kwargs) ==
  prefix \o <<":">> \o Md5Hex8(SortKeys(kwargs))

\* the key of each parameter set under the "market_performance" prefix
KeyOf == [p \in ParamSets |-> GenerateKey(PrefixText, p)]

AllKeys == {KeyOf[p] : p \in ParamSets}

\* ------------------------------------------------------------------------
\* JSON values held by the cache: lists of one-digit integers.
\* ------------------------------------------------------------------------
JsonValues == {<<>>, <<2, 1>>}

DigitChar(n) ==
  CASE n = 0 -> "0" [] n = 1 -> "1" [] n = 2 -> "2" [] n = 3 -> "3"
    [] n = 4 -> "4" [] n = 5 -> "5" [] n = 6 -> "6" [] n = 7 -> "7"
    [] n = 8 -> "8" [] n = 9 -> "9"

IsDigitChar(c) == c \in {DigitChar(n) : n \in 0..9}

DigitVal(c) == CHOOSE n \in 0..9 : DigitChar(n) = c

\* json.dumps of a list of digits: "[2, 1]"
RECURSIVE DumpItems(_)
DumpItems(v) ==
  IF v = <<>> THEN <<>>
  ELSE IF Len(v) = 1 THEN <<DigitChar(v[1])>>
  ELSE <<DigitChar(v[1]), ",", " ">> \o DumpItems(Tail(v))

JsonDumps(v) == <<"[">> \o DumpItems(v) \o <<"]">>

\* json.loads of such a text
JsonLoads(text) ==
  LET digits == SelectSeq(text, IsDigitChar)
  IN [i \in 1..Len(digits) |-> DigitVal(digits[i])]

\* ------------------------------------------------------------------------
\* Redis key patterns (KEYS): '*' matches any run of characters.
\* ------------------------------------------------------------------------
RECURSIVE GlobMatch(_, _)
GlobMatch(pat, s) ==
  IF pat = <<>> THEN s = <<>>
  ELSE IF pat[1] = "*"
       THEN \/ GlobMatch(Tail(pat), s)
            \/ (s # <<>> /\ GlobMatch(pat, Tail(s)))
       ELSE /\ s # <<>>
            /\ s[1] = pat[1]
            /\ GlobMatch(Tail(pat), Tail(s))

\* pattern.replace('*', '')
RemoveStars(pat) == SelectSeq(pat, LAMBDA c : c # "*")

\* Python's  sub in s  for texts
Contains(sub, s) ==
  \E i \in 0..(Len(s) - Len(sub)) : SubSeq(s, i + 1, i + Len(sub)) = sub

\* ------------------------------------------------------------------------
\* State
\* ------------------------------------------------------------------------
VARIABLES
  enabled,           \* CacheService.enabled
  redis_store,       \* the Redis server: key -> [data, expire_at]
  memory_cache,      \* CacheService.memory_cache
  cache_timestamps,  \* CacheService.cache_timestamps
  now,               \* time.time(), in seconds
  ticks,             \* clock advances so far
  ops,               \* CacheService calls so far
  last,              \* the last completed call and what it returned
  prev,              \* the call before it
  lastSet,           \* per key: when it was last set, and with which ttl
  cthr,              \* request threads inside CacheService.get / set
  max_tickers,       \* PerformanceService.max_tickers
  chunk_size,        \* PerformanceService.chunk_size
  max_chunks,        \* PerformanceService.max_chunks
  fthr,              \* request threads inside get_market_performance_fast
  run,               \* locals of one screening run
  all_performance_data,  \* the records one screening run has collected
  keyq,              \* two _generate_key calls with the same parameters
  gmp,               \* locals of one get_market_performance call
  api,               \* one request at the API boundary
  rank,              \* a performance table and its ranking
  fluct,             \* locals of one find_fluctuation_stocks call
  lst                \* the lru_cache of _get_tickers_by_market_cached

cacheVars ==
  <<enabled, redis_store, memory_cache, cache_timestamps, now, ticks, ops,
    last, prev, lastSet>>

concVars == <<cthr>>

limitVars == <<max_tickers, chunk_size, max_chunks>>

fastVars == <<fthr>>

runVars == <<run, all_performance_data>>

reqVars == <<keyq, gmp, api, rank, fluct, lst>>

vars == <<cacheVars, concVars, limitVars, fastVars, runVars, reqVars>>

NoKey == <<>>
NoStats == [redis_enabled |-> FALSE, memory_cache_size |-> 0, redis_keys |-> 0]

\* record of a call: what was asked, whether Redis failed during it, and the
\* outcome: a returned value (ret_none = FALSE), None, a boolean or a stats
\* dict; raised = an exception left the call
CallRec(op, key, val, ttl, fail, rnone, rval, rbool, raised, stats) ==
  [op |-> op, key |-> key, val |-> val, ttl |-> ttl, fail |-> fail,
   ret_none |-> rnone, ret_val |-> rval, ret_bool |-> rbool,
   raised |-> raised, stats |-> stats]

NoCall == CallRec("none", NoKey, <<>>, 0, FALSE, TRUE, <<>>, FALSE, FALSE, NoStats)

\* the Redis server holds a live (unexpired) entry for key at time t
RedisLive(store, key, t) == key \in DOMAIN store /\ t < store[key].expire_at

\* d with key k removed
DictDel(d, k) == [x \in (DOMAIN d) \ {k} |-> d[x]]

\* d with d[k] = v
DictPut(d, k, v) == [x \in (DOMAIN d) \cup {k} |-> IF x = k THEN v ELSE d[x]]

\* ------------------------------------------------------------------------
\* CacheService, one call at a time
\* ------------------------------------------------------------------------
\* the key of greatest timestamp instead
OldestKey_Newest(ts) ==
  CHOOSE k \in DOMAIN ts : \A j \in DOMAIN ts : ts[k] >= ts[j]

\* the key min(cache_timestamps.keys(), key=...) picks: one of least
\* timestamp (among several of the same timestamp, the first inserted)
OldestKey(ts) ==
  CHOOSE k \in DOMAIN ts : \A j \in DOMAIN ts : ts[k] <= ts[j]

\* the Redis lookup of get without its try/except: a Redis error leaves get
GetRedisPart_NoExcept(en, store, t, key, fail) ==
  IF en /\ ~fail /\ RedisLive(store, key, t) /\ store[key].data # <<>>
  THEN [found |-> TRUE, val |-> JsonLoads(store[key].data), raised |-> FALSE]
  ELSE [found |-> FALSE, val |-> <<>>, raised |-> en /\ fail]

\* CacheService.get: the Redis lookup inside its try/except.
\* found = Redis answered with a non-empty text, which get returns decoded.
GetRedisPart(en, store, t, key, fail) ==
  IF en /\ ~fail /\ RedisLive(store, key, t) /\ store[key].data # <<>>
  THEN [found |-> TRUE, val |-> JsonLoads(store[key].data), raised |-> FALSE]
  ELSE [found |-> FALSE, val |-> <<>>, raised |-> FALSE]

\* CacheService.get: the in-process lookup after the Redis part missed.
GetMemoryPart(mem, ts, t, key) ==
  IF key \in DOMAIN mem
  THEN LET timestamp == IF key \in DOMAIN ts THEN ts[key] ELSE 0
       IN IF t - timestamp < PERFORMANCE_CACHE_TTL
          THEN [mem |-> mem, ts |-> ts, ret_none |-> FALSE,
                ret_val |-> mem[key], raised |-> FALSE]
          ELSE [mem |-> DictDel(mem, key), ts |-> DictDel(ts, key),
                ret_none |-> TRUE, ret_val |-> <<>>,
                raised |-> key \notin DOMAIN ts]
  ELSE [mem |-> mem, ts |-> ts, ret_none |-> TRUE, ret_val |-> <<>>,
        raised |-> FALSE]

\* CacheService.set: the Redis write inside its try/except.
\* stored = setex succeeded, and set returns True at once.
SetRedisPart(en, store, t, key, data, ttl, fail) ==
  IF en /\ ~fail
  THEN [stored |-> TRUE,
        store |-> DictPut(store, key,
                          [data |-> JsonDumps(data), expire_at |-> t + ttl]),
        raised |-> FALSE]
  ELSE [stored |-> FALSE, store |-> store, raised |-> FALSE]

\* CacheService.set: the in-process write, with the size limit.
SetMemoryPart(mem, ts, t, key, data) ==
  LET m1 == DictPut(mem, key, data)
      t1 == DictPut(ts, key, t)
  IN IF Cardinality(DOMAIN m1) > MemoryCacheLimit
     THEN LET oldest_key == OldestKey(t1)
          IN [mem |-> DictDel(m1, oldest_key), ts |-> DictDel(t1, oldest_key),
              raised |-> oldest_key \notin DOMAIN m1]
     ELSE [mem |-> m1, ts |-> t1, raised |-> FALSE]

\* keys of the Redis server matching a pattern (KEYS pattern)
RedisKeys(store, t, pattern) ==
  {k \in DOMAIN store : RedisLive(store, k, t) /\ GlobMatch(pattern, k)}

\* "market_performance:*"
AllPattern == PrefixText \o <<":", "*">>

\* CacheService.clear; pattern <<>> stands for None (and for "", also falsy).
\* An exception anywhere in the body is caught and clear returns False.
ClearEffect(en, store, mem, ts, t, pattern, fail) ==
  IF en /\ fail
  THEN [store |-> store, mem |-> mem, ts |-> ts, ret |-> FALSE,
        raised |-> FALSE]
  ELSE LET keys == RedisKeys(store, t,
                             IF pattern # <<>> THEN pattern ELSE AllPattern)
           store1 == IF en
                     THEN [k \in (DOMAIN store) \ keys |-> store[k]]
                     ELSE store
           keys_to_delete ==
             {k \in DOMAIN mem : Contains(RemoveStars(pattern), k)}
       IN IF pattern # <<>>
          THEN IF keys_to_delete \subseteq DOMAIN ts
               THEN [store |-> store1,
                     mem |-> [k \in (DOMAIN mem) \ keys_to_delete |-> mem[k]],
                     ts |-> [k \in (DOMAIN ts) \ keys_to_delete |-> ts[k]],
                     ret |-> TRUE, raised |-> FALSE]
               ELSE [store |-> store1, mem |-> mem, ts |-> ts,
                     ret |-> FALSE, raised |-> FALSE]
          ELSE [store |-> store1, mem |-> <<>>, ts |-> <<>>, ret |-> TRUE,
                raised |-> FALSE]

\* CacheService.get_stats
StatsEffect(en, store, mem, t, fail) ==
  [stats |-> [redis_enabled |-> en,
              memory_cache_size |-> Cardinality(DOMAIN mem),
              redis_keys |-> IF en /\ ~fail
                             THEN Cardinality(RedisKeys(store, t, AllPattern))
                             ELSE 0],
   raised |-> FALSE]

\* PerformanceService.clear_cache: the pattern handed to CacheService.clear
ClearCachePattern(market) ==
  IF market # <<>> THEN PrefixText \o <<":", "*">> \o market \o <<"*">>
  ELSE <<>>

\* --- actions ---

CacheGet(p, fail) ==
  /\ ops < MaxOps
  /\ fail => enabled
  /\ LET key == KeyOf[p]
         r == GetRedisPart(enabled, redis_store, now, key, fail)
         m == GetMemoryPart(memory_cache, cache_timestamps, now, key)
     IN IF r.raised \/ r.found
        THEN /\ last' = CallRec("get", key, <<>>, 0, fail, ~r.found, r.val,
                                FALSE, r.raised, NoStats)
             /\ UNCHANGED <<memory_cache, cache_timestamps>>
        ELSE /\ last' = CallRec("get", key, <<>>, 0, fail, m.ret_none,
                                m.ret_val, FALSE, m.raised, NoStats)
             /\ memory_cache' = m.mem
             /\ cache_timestamps' = m.ts
  /\ prev' = IF last.op = "set" THEN last ELSE NoCall
  /\ ops' = ops + 1
  /\ UNCHANGED <<enabled, redis_store, now, ticks, lastSet>>
  /\ UNCHANGED <<concVars, limitVars, fastVars, runVars, reqVars>>

CacheSet(p, data, ttl, fail) ==
  /\ ops < MaxOps
  /\ fail => enabled
  /\ LET key == KeyOf[p]
         r == SetRedisPart(enabled, redis_store, now, key, data, ttl, fail)
         m == SetMemoryPart(memory_cache, cache_timestamps, now, key, data)
     IN /\ redis_store' = r.store
        /\ IF r.raised \/ r.stored
           THEN /\ last' = CallRec("set", key, data, ttl, fail, TRUE, <<>>,
                                   r.stored, r.raised, NoStats)
                /\ UNCHANGED <<memory_cache, cache_timestamps>>
           ELSE /\ last' = CallRec("set", key, data, ttl, fail, TRUE, <<>>,
                                   ~m.raised, m.raised, NoStats)
                /\ memory_cache' = m.mem
                /\ cache_timestamps' = m.ts
        /\ lastSet' = DictPut(lastSet, key, [at |-> now, ttl |-> ttl])
  /\ prev' = IF last.op = "set" THEN last ELSE NoCall
  /\ ops' = ops + 1
  /\ UNCHANGED <<enabled, now, ticks>>
  /\ UNCHANGED <<concVars, limitVars, fastVars, runVars, reqVars>>

ClearCall(op, arg, pattern, fail) ==
  /\ ops < MaxOps
  /\ fail => enabled
  /\ LET c == ClearEffect(enabled, redis_store, memory_cache,
                          cache_timestamps, now, pattern, fail)
     IN /\ redis_store' = c.store
        /\ memory_cache' = c.mem
        /\ cache_timestamps' = c.ts
        /\ last' = CallRec(op, arg, <<>>, 0, fail, TRUE, <<>>, c.ret,
                           c.raised, NoStats)
  /\ prev' = IF last.op = "set" THEN last ELSE NoCall
  /\ ops' = ops + 1
  /\ UNCHANGED <<enabled, now, ticks, lastSet>>
  /\ UNCHANGED <<concVars, limitVars, fastVars, runVars, reqVars>>

\* cache_service.clear(pattern)
CacheClear(pattern, fail) == ClearCall("clear", pattern, pattern, fail)

\* performance_service.clear_cache(market)
PerfClearCache(market, fail) ==
  ClearCall("clear_cache", market, ClearCachePattern(market), fail)

CacheGetStats(fail) ==
  /\ ops < MaxOps
  /\ fail => enabled
  /\ LET s == StatsEffect(enabled, redis_store, memory_cache, now, fail)
     IN last' = CallRec("get_stats", NoKey, <<>>, 0, fail, TRUE, <<>>, FALSE,
                        s.raised, s.stats)
  /\ prev' = IF last.op = "set" THEN last ELSE NoCall
  /\ ops' = ops + 1
  /\ UNCHANGED <<enabled, redis_store, memory_cache, cache_timestamps, now,
                 ticks, lastSet>>
  /\ UNCHANGED <<concVars, limitVars, fastVars, runVars, reqVars>>

\* the clock advances by d seconds; Redis drops the entries that expired
Tick(d) ==
  /\ ticks < MaxTicks
  /\ now' = now + d
  /\ ticks' = ticks + 1
  /\ redis_store' = [k \in {x \in DOMAIN redis_store :
                              now + d < redis_store[x].expire_at}
                       |-> redis_store[k]]
  /\ last' = [NoCall EXCEPT !.op = "tick"]
  /\ prev' = IF last.op = "set" THEN last ELSE NoCall
  /\ UNCHANGED <<enabled, memory_cache, cache_timestamps, ops, lastSet>>
  /\ UNCHANGED <<concVars, limitVars, fastVars, runVars, reqVars>>

\* inputs
TtlValues == {1, PERFORMANCE_CACHE_TTL}
TickSteps == {1, PERFORMANCE_CACHE_TTL - 1}
Markets == {KOSPI, <<>>}
Patterns ==
  {<<>>, PrefixText \o <<":", "*", "a", "*">>}

\* ------------------------------------------------------------------------
\* CacheService.get and CacheService.set run by several request threads
\* (run_in_threadpool), one statement at a time, on the in-process tier
\* ------------------------------------------------------------------------
Threads == 1..ConcThreads

IdleThread ==
  [pc |-> "idle", key |-> NoKey, data |-> <<>>, timestamp |-> 0,
   raised |-> FALSE, calls |-> 0]

\* the thread leaves its call, normally or with an exception
ConcReturn(t, raised) ==
  cthr' = [cthr EXCEPT ![t].pc = "idle", ![t].raised = @ \/ raised]

ConcUnchanged ==
  UNCHANGED <<enabled, redis_store, now, ticks, ops, last, prev, lastSet,
              limitVars, fastVars, runVars, reqVars>>

\* a request thread enters cache_service.get; Redis is skipped (not enabled)
ConcCallGet(t, p) ==
  /\ ~enabled
  /\ cthr[t].pc = "idle"
  /\ cthr[t].calls < MaxCallsPerThread
  /\ cthr' = [cthr EXCEPT ![t].pc = "g_check",
                          ![t].key = KeyOf[p],
                          ![t].calls = @ + 1]
  /\ UNCHANGED <<memory_cache, cache_timestamps>>
  /\ ConcUnchanged

\* if key in self.memory_cache:
GCheck(t) ==
  /\ cthr[t].pc = "g_check"
  /\ IF cthr[t].key \in DOMAIN memory_cache
     THEN cthr' = [cthr EXCEPT ![t].pc = "g_timestamp"]
     ELSE ConcReturn(t, FALSE)
  /\ UNCHANGED <<memory_cache, cache_timestamps>>
  /\ ConcUnchanged

\* timestamp = self.cache_timestamps.get(key, 0)
GTimestamp(t) ==
  /\ cthr[t].pc = "g_timestamp"
  /\ cthr' = [cthr EXCEPT
                ![t].pc = "g_compare",
                ![t].timestamp = IF cthr[t].key \in DOMAIN cache_timestamps
                                 THEN cache_timestamps[cthr[t].key] ELSE 0]
  /\ UNCHANGED <<memory_cache, cache_timestamps>>
  /\ ConcUnchanged

\* if time.time() - timestamp < TTL: return self.memory_cache[key]
GCompare(t) ==
  /\ cthr[t].pc = "g_compare"
  /\ IF now - cthr[t].timestamp < PERFORMANCE_CACHE_TTL
     THEN ConcReturn(t, cthr[t].key \notin DOMAIN memory_cache)
     ELSE cthr' = [cthr EXCEPT ![t].pc = "g_del_memory"]
  /\ UNCHANGED <<memory_cache, cache_timestamps>>
  /\ ConcUnchanged

\* del self.memory_cache[key]
GDelMemory(t) ==
  /\ cthr[t].pc = "g_del_memory"
  /\ IF cthr[t].key \in DOMAIN memory_cache
     THEN /\ memory_cache' = DictDel(memory_cache, cthr[t].key)
          /\ cthr' = [cthr EXCEPT ![t].pc = "g_del_timestamp"]
     ELSE /\ ConcReturn(t, TRUE)
          /\ UNCHANGED memory_cache
  /\ UNCHANGED cache_timestamps
  /\ ConcUnchanged

\* del self.cache_timestamps[key]; return None
GDelTimestamp(t) ==
  /\ cthr[t].pc = "g_del_timestamp"
  /\ IF cthr[t].key \in DOMAIN cache_timestamps
     THEN /\ cache_timestamps' = DictDel(cache_timestamps, cthr[t].key)
          /\ ConcReturn(t, FALSE)
     ELSE /\ ConcReturn(t, TRUE)
          /\ UNCHANGED cache_timestamps
  /\ UNCHANGED memory_cache
  /\ ConcUnchanged

\* a request thread enters cache_service.set; Redis is skipped (not enabled)
ConcCallSet(t, p, data) ==
  /\ ~enabled
  /\ cthr[t].pc = "idle"
  /\ cthr[t].calls < MaxCallsPerThread
  /\ cthr' = [cthr EXCEPT ![t].pc = "s_memory",
                          ![t].key = KeyOf[p],
                          ![t].data = data,
                          ![t].calls = @ + 1]
  /\ UNCHANGED <<memory_cache, cache_timestamps>>
  /\ ConcUnchanged

\* self.memory_cache[key] = data
SPutMemory(t) ==
  /\ cthr[t].pc = "s_memory"
  /\ memory_cache' = DictPut(memory_cache, cthr[t].key, cthr[t].data)
  /\ cthr' = [cthr EXCEPT ![t].pc = "s_timestamp"]
  /\ UNCHANGED cache_timestamps
  /\ ConcUnchanged

\* self.cache_timestamps[key] = time.time()
SPutTimestamp(t) ==
  /\ cthr[t].pc = "s_timestamp"
  /\ cache_timestamps' = DictPut(cache_timestamps, cthr[t].key, now)
  /\ cthr' = [cthr EXCEPT ![t].pc = "s_limit"]
  /\ UNCHANGED memory_cache
  /\ ConcUnchanged

\* if len(self.memory_cache) > 100: drop the oldest key; return True
SLimit(t) ==
  /\ cthr[t].pc = "s_limit"
  /\ IF Cardinality(DOMAIN memory_cache) > MemoryCacheLimit
     THEN LET oldest_key == OldestKey(cache_timestamps)
          IN IF oldest_key \in DOMAIN memory_cache
             THEN /\ memory_cache' = DictDel(memory_cache, oldest_key)
                  /\ cache_timestamps' = DictDel(cache_timestamps, oldest_key)
                  /\ ConcReturn(t, FALSE)
             ELSE /\ ConcReturn(t, TRUE)
                  /\ UNCHANGED <<memory_cache, cache_timestamps>>
     ELSE /\ ConcReturn(t, FALSE)
          /\ UNCHANGED <<memory_cache, cache_timestamps>>
  /\ ConcUnchanged

\* ------------------------------------------------------------------------
\* PerformanceService.get_market_performance_fast, one statement at a time,
\* on the PerformanceService instance main.py creates once
\* ------------------------------------------------------------------------
FastThreadSet == 1..FastThreads

IdleFast ==
  [pc |-> "idle", original_max_tickers |-> 0, original_chunk_size |-> 0,
   original_max_chunks |-> 0, outcome |-> "none", result |-> "none",
   before |-> <<0, 0, 0>>, calls |-> 0]

FastUnchanged == UNCHANGED <<cacheVars, concVars, runVars, reqVars>>

\* the restore done after a normal return only, not in a finally block
RestoredValue_NoFinally(outcome, original, current) ==
  IF outcome = "raised" THEN current ELSE original

\* what the finally block assigns back to a field: the saved original,
\* whether the inner call returned or raised
RestoredValue(outcome, original, current) == original

\* a request thread enters get_market_performance_fast
FastCall(t) ==
  /\ fthr[t].pc = "idle"
  /\ fthr[t].calls < MaxFastCalls
  /\ fthr' = [fthr EXCEPT ![t].pc = "f_save_max_tickers",
                          ![t].outcome = "none",
                          ![t].result = "none",
                          ![t].before = <<max_tickers, chunk_size, max_chunks>>,
                          ![t].calls = @ + 1]
  /\ UNCHANGED limitVars
  /\ FastUnchanged

\* the same, when no other call is in flight
FastCallAlone(t) ==
  /\ \A u \in FastThreadSet : fthr[u].pc = "idle"
  /\ FastCall(t)

\* original_max_tickers = self.max_tickers
FSaveMaxTickers(t) ==
  /\ fthr[t].pc = "f_save_max_tickers"
  /\ fthr' = [fthr EXCEPT ![t].pc = "f_save_chunk_size",
                          ![t].original_max_tickers = max_tickers]
  /\ UNCHANGED limitVars
  /\ FastUnchanged

\* original_chunk_size = self.chunk_size
FSaveChunkSize(t) ==
  /\ fthr[t].pc = "f_save_chunk_size"
  /\ fthr' = [fthr EXCEPT ![t].pc = "f_save_max_chunks",
                          ![t].original_chunk_size = chunk_size]
  /\ UNCHANGED limitVars
  /\ FastUnchanged

\* original_max_chunks = self.max_chunks
FSaveMaxChunks(t) ==
  /\ fthr[t].pc = "f_save_max_chunks"
  /\ fthr' = [fthr EXCEPT ![t].pc = "f_set_max_tickers",
                          ![t].original_max_chunks = max_chunks]
  /\ UNCHANGED limitVars
  /\ FastUnchanged

\* self.max_tickers = 500
FSetMaxTickers(t) ==
  /\ fthr[t].pc = "f_set_max_tickers"
  /\ max_tickers' = FastMaxTickers
  /\ fthr' = [fthr EXCEPT ![t].pc = "f_set_chunk_size"]
  /\ UNCHANGED <<chunk_size, max_chunks>>
  /\ FastUnchanged

\* self.chunk_size = 25
FSetChunkSize(t) ==
  /\ fthr[t].pc = "f_set_chunk_size"
  /\ chunk_size' = FastChunkSize
  /\ fthr' = [fthr EXCEPT ![t].pc = "f_set_max_chunks"]
  /\ UNCHANGED <<max_tickers, max_chunks>>
  /\ FastUnchanged

\* self.max_chunks = 10
FSetMaxChunks(t) ==
  /\ fthr[t].pc = "f_set_max_chunks"
  /\ max_chunks' = FastMaxChunks
  /\ fthr' = [fthr EXCEPT ![t].pc = "f_inner"]
  /\ UNCHANGED <<max_tickers, chunk_size>>
  /\ FastUnchanged

\* return self.get_market_performance(...): it returns or it raises; either
\* way control passes to the finally block
FInner(t, outcome) ==
  /\ fthr[t].pc = "f_inner"
  /\ fthr' = [fthr EXCEPT ![t].pc = "f_restore_max_tickers",
                          ![t].outcome = outcome]
  /\ UNCHANGED limitVars
  /\ FastUnchanged

\* self.max_tickers = original_max_tickers
FRestoreMaxTickers(t) ==
  /\ fthr[t].pc = "f_restore_max_tickers"
  /\ max_tickers' = RestoredValue(fthr[t].outcome,
                                  fthr[t].original_max_tickers, max_tickers)
  /\ fthr' = [fthr EXCEPT ![t].pc = "f_restore_chunk_size"]
  /\ UNCHANGED <<chunk_size, max_chunks>>
  /\ FastUnchanged

\* self.chunk_size = original_chunk_size
FRestoreChunkSize(t) ==
  /\ fthr[t].pc = "f_restore_chunk_size"
  /\ chunk_size' = RestoredValue(fthr[t].outcome,
                                 fthr[t].original_chunk_size, chunk_size)
  /\ fthr' = [fthr EXCEPT ![t].pc = "f_restore_max_chunks"]
  /\ UNCHANGED <<max_tickers, max_chunks>>
  /\ FastUnchanged

\* self.max_chunks = original_max_chunks; the call returns or re-raises
FRestoreMaxChunks(t) ==
  /\ fthr[t].pc = "f_restore_max_chunks"
  /\ max_chunks' = RestoredValue(fthr[t].outcome,
                                 fthr[t].original_max_chunks, max_chunks)
  /\ fthr' = [fthr EXCEPT ![t].pc = "idle", ![t].result = fthr[t].outcome]
  /\ UNCHANGED <<max_tickers, chunk_size>>
  /\ FastUnchanged

\* ------------------------------------------------------------------------
\* One screening run: _get_performance_us_optimized (chunked downloads) and
\* _get_performance_kr (one symbol at a time), under the limits in force
\* ------------------------------------------------------------------------
\* tickers are numbered 1..n in listing order; the closes the upstream source
\* holds for a ticker on the three dates of the period, 0 = no price (NaN)
SeriesOf(ticker) ==
  CASE ticker % 8 = 0 -> <<100, 110, 120>>
    [] ticker % 8 = 1 -> <<100, 0, 1000>>
    [] ticker % 8 = 2 -> <<10000, 5000, 999>>
    [] ticker % 8 = 3 -> <<0, 0, 0>>
    [] ticker % 8 = 4 -> <<0, 50, 0>>
    [] ticker % 8 = 5 -> <<100, 50, 10>>
    [] ticker % 8 = 6 -> <<10000, 0, 100001>>
    [] ticker % 8 = 7 -> <<100, 100, 100>>

\* stock.get_market_ohlcv raises for these tickers
KRFetchRaises(ticker) == ticker % 8 = 7

Min(a, b) == IF a <= b THEN a ELSE b

\* the prices of a series that are present
ValidCloses(series) == SelectSeq(series, LAMBDA c : c > 0)

\* ((end - start) / start) * 100, in hundredths of a percent
Performance(start_price, end_price) ==
  ((end_price - start_price) * 10000) \div start_price

\* the filter with both bounds excluded
InRange_Exclusive(performance) == -9000 < performance /\ performance < 90000

\* the outlier filter  -90 <= performance <= 900
InRange(performance) == -9000 <= performance /\ performance <= 90000

\* tickers[:self.max_tickers]
USLimited(n, maxTickers) == Min(n, maxTickers)

\* tickers[:min(500, self.max_tickers // 2)]
KRLimited(n, maxTickers) == Min(n, Min(500, maxTickers \div 2))

\* the records one downloaded chunk adds: close_prices drops the columns
\* with no price at all, start is the first and end the last price present
RECURSIVE ChunkRecords(_, _)
ChunkRecords(first, lastT) ==
  IF first > lastT THEN <<>>
  ELSE LET closes == ValidCloses(SeriesOf(first))
           rec == IF closes # <<>>
                     /\ InRange(Performance(closes[1], closes[Len(closes)]))
                  THEN <<[ticker |-> first,
                          performance |->
                            Performance(closes[1], closes[Len(closes)])]>>
                  ELSE <<>>
       IN rec \o ChunkRecords(first + 1, lastT)

\* close_prices.empty or len(close_prices) < 2: no column has a price, or
\* the frame has fewer than two rows
ChunkUnusable(first, lastT) ==
  \/ \A t \in first..lastT : ValidCloses(SeriesOf(t)) = <<>>
  \/ Len(SeriesOf(first)) < 2

\* a skipped chunk ending the loop (break) instead of continuing it
AfterSkip_Break(i, chunkSize, limited) == limited

\* the loop index after a chunk was skipped by `continue`: the for loop
\* goes on with the next chunk
AfterSkip(i, chunkSize, limited) == i + chunkSize

\* ceilings: the values of self.max_tickers, self.chunk_size and
\* self.max_chunks the run has read so far; step: the step of its range();
\* chunk_last: the last ticker of  chunk = limited_tickers[i:i + chunk_size];
\* downloads: the yf.download calls made for the current chunk
IdleRun ==
  [pc |-> "idle", path |-> "none", n |-> 0, limited |-> 0, i |-> 0,
   step |-> 0, chunk_last |-> 0, processed_chunks |-> 0, attempt |-> 0,
   downloads |-> 0, data |-> "none",
   bad |-> 0, fetched |-> 0, chunks |-> <<>>, ceilings |-> {}]

RunUnchanged ==
  UNCHANGED <<cacheVars, concVars, limitVars, fastVars, reqVars>>

\* get_market_performance calls _get_performance_us_optimized(tickers, ...);
\* range(0, len(limited_tickers), self.chunk_size) is built once
USStart(n) ==
  /\ run.pc = "idle"
  /\ run' = [run EXCEPT !.pc = "us_loop", !.path = "us", !.n = n,
                        !.limited = USLimited(n, max_tickers),
                        !.step = chunk_size,
                        !.ceilings = @ \cup {<<"max_tickers", max_tickers>>,
                                             <<"chunk_size", chunk_size>>}]
  /\ UNCHANGED all_performance_data
  /\ RunUnchanged

\* for i in range(0, len(limited_tickers), self.chunk_size):
\*     if processed_chunks >= self.max_chunks: break
USLoop ==
  /\ run.pc = "us_loop"
  /\ IF run.i >= run.limited
     THEN run' = [run EXCEPT !.pc = "done"]
     ELSE IF run.processed_chunks >= max_chunks
     THEN run' = [run EXCEPT !.pc = "done",
                             !.ceilings = @ \cup {<<"max_chunks", max_chunks>>}]
     ELSE run' = [run EXCEPT !.pc = "us_download", !.attempt = 0,
                             !.downloads = 0,
                             !.data = "none", !.fetched = @ + 1,
                             !.chunk_last = Min(run.i + chunk_size, run.limited),
                             !.ceilings = @ \cup {<<"max_chunks", max_chunks>>,
                                                  <<"chunk_size", chunk_size>>}]
  /\ UNCHANGED all_performance_data
  /\ RunUnchanged

\* the same with  for attempt in range(3)
USDownload_ThreeAttempts(outcome) ==
  /\ run.pc = "us_download"
  /\ (outcome # "ok" /\ run.attempt = 0) => run.bad < MaxBadChunks
  /\ IF outcome = "raise"
     THEN IF run.attempt = 2
          THEN run' = [run EXCEPT !.pc = "us_process", !.downloads = @ + 1]
          ELSE run' = [run EXCEPT !.attempt = @ + 1, !.downloads = @ + 1,
                                  !.bad = IF run.attempt = 0 THEN @ + 1 ELSE @]
     ELSE run' = [run EXCEPT !.pc = "us_process", !.data = outcome,
                             !.downloads = @ + 1,
                             !.bad = IF outcome # "ok" /\ run.attempt = 0
                                     THEN @ + 1 ELSE @]
  /\ UNCHANGED all_performance_data
  /\ RunUnchanged

\* one attempt of  for attempt in range(2): data = yf.download(chunk, ...)
\* outcome: the download raises, returns nothing usable, or returns prices
USDownload(outcome) ==
  /\ run.pc = "us_download"
  /\ (outcome # "ok" /\ run.attempt = 0) => run.bad < MaxBadChunks
  /\ IF outcome = "raise"
     THEN IF run.attempt = 1
          THEN run' = [run EXCEPT !.pc = "us_process", !.downloads = @ + 1]
          ELSE run' = [run EXCEPT !.attempt = 1, !.downloads = @ + 1,
                                  !.bad = @ + 1]
     ELSE run' = [run EXCEPT !.pc = "us_process", !.data = outcome,
                             !.downloads = @ + 1,
                             !.bad = IF outcome # "ok" /\ run.attempt = 0
                                     THEN @ + 1 ELSE @]
  /\ UNCHANGED all_performance_data
  /\ RunUnchanged

\* the rest of the loop body, from  if data is None or data.empty ...
USProcess ==
  /\ run.pc = "us_process"
  /\ LET first == run.i + 1
         lastT == run.chunk_last
     IN IF run.data # "ok"
        THEN /\ run' = [run EXCEPT
                          !.pc = "us_loop",
                          !.i = AfterSkip(run.i, run.step, run.limited),
                          !.chunks = Append(@, [start |-> run.i,
                                 outcome |-> IF run.data = "none"
                                             THEN "failed" ELSE "empty"])]
             /\ UNCHANGED all_performance_data
        ELSE IF ChunkUnusable(first, lastT)
        THEN /\ run' = [run EXCEPT
                          !.pc = "us_loop",
                          !.i = AfterSkip(run.i, run.step, run.limited),
                          !.chunks = Append(@, [start |-> run.i,
                                                outcome |-> "unusable"])]
             /\ UNCHANGED all_performance_data
        ELSE /\ all_performance_data' =
                  all_performance_data \o ChunkRecords(first, lastT)
             /\ run' = [run EXCEPT
                          !.pc = "us_loop",
                          !.i = run.i + run.step,
                          !.processed_chunks = @ + 1,
                          !.chunks = Append(@, [start |-> run.i,
                                                outcome |-> "data"])]
  /\ RunUnchanged

\* get_market_performance calls _get_performance_kr(tickers, ...)
KRStart(n) ==
  /\ run.pc = "idle"
  /\ run' = [run EXCEPT !.pc = "kr_loop", !.path = "kr", !.n = n,
                        !.limited = KRLimited(n, max_tickers),
                        !.ceilings = @ \cup {<<"max_tickers", max_tickers>>}]
  /\ UNCHANGED all_performance_data
  /\ RunUnchanged

\* one pass of  for i, ticker in enumerate(limited_tickers)
KRStep ==
  /\ run.pc = "kr_loop"
  /\ run.i < run.limited
  /\ LET ticker == run.i + 1
         df == ValidCloses(SeriesOf(ticker))
     IN /\ IF /\ ~KRFetchRaises(ticker)
              /\ Len(df) > 1
              /\ df[1] > 0
              /\ InRange(Performance(df[1], df[Len(df)]))
           THEN all_performance_data' =
                  Append(all_performance_data,
                         [ticker |-> ticker,
                          performance |-> Performance(df[1], df[Len(df)])])
           ELSE UNCHANGED all_performance_data
        /\ run' = [run EXCEPT !.i = @ + 1, !.fetched = @ + 1]
  /\ RunUnchanged

\* the loop is exhausted: return pd.DataFrame(performance_data)
KRDone ==
  /\ run.pc = "kr_loop"
  /\ run.i >= run.limited
  /\ run' = [run EXCEPT !.pc = "done"]
  /\ UNCHANGED all_performance_data
  /\ RunUnchanged

\* ------------------------------------------------------------------------
\* _generate_key called twice with the same keyword arguments, supplied in
\* two orders
\* ------------------------------------------------------------------------
\* the orders four keyword arguments can be supplied in
Orders == {o \in [1..4 -> 1..4] : \A i, j \in 1..4 : o[i] = o[j] => i = j}

IdleKeyq ==
  [pc |-> "idle", p |-> KwKospi10, first |-> <<1, 2, 3, 4>>,
   second |-> <<1, 2, 3, 4>>, key_first |-> <<>>, key_second |-> <<>>]

\* cache_service.get("market_performance", **kwargs): the key it addresses
GenerateFirst ==
  /\ keyq.pc = "drawn"
  /\ keyq' = [keyq EXCEPT
                !.pc = "first",
                !.key_first = GenerateKey(PrefixText, Perm(keyq.p, keyq.first))]
  /\ UNCHANGED <<cacheVars, concVars, limitVars, fastVars, runVars>>
  /\ UNCHANGED <<gmp, api, rank, fluct, lst>>

\* cache_service.set("market_performance", ..., **kwargs): the key it addresses
GenerateSecond ==
  /\ keyq.pc = "first"
  /\ keyq' = [keyq EXCEPT
                !.pc = "done",
                !.key_second =
                   GenerateKey(PrefixText, Perm(keyq.p, keyq.second))]
  /\ UNCHANGED <<cacheVars, concVars, limitVars, fastVars, runVars>>
  /\ UNCHANGED <<gmp, api, rank, fluct, lst>>

\* ------------------------------------------------------------------------
\* Ranking of the collected records in get_market_performance
\* ------------------------------------------------------------------------
\* DataFrame.sort_values(by='performance', ascending=asc) with the default
\* kind='quicksort', which is not a stable sort: every order of the rows at
\* positions idx that is sorted by performance is a possible outcome
RECURSIVE OrdersOf(_, _, _)
OrdersOf(recs, idx, asc) ==
  IF idx = {} THEN {<<>>}
  ELSE LET firsts ==
             {i \in idx : \A j \in idx :
                 IF asc THEN recs[i].performance <= recs[j].performance
                 ELSE recs[i].performance >= recs[j].performance}
       IN UNION {{<<recs[i]>> \o rest : rest \in OrdersOf(recs, idx \ {i}, asc)}
                   : i \in firsts}

SortValues(recs, asc) == OrdersOf(recs, 1..Len(recs), asc)

Max(a, b) == IF a >= b THEN a ELSE b

\* performance_df.head(top_n)
HeadRows(recs, top_n) == SubSeq(recs, 1, Min(top_n, Len(recs)))

\* performance_df.tail(top_n)
TailRows(recs, top_n) == SubSeq(recs, Max(Len(recs) - top_n, 0) + 1, Len(recs))

\* the performance tables ranked: performances in hundredths of a percent,
\* the row at position i belongs to ticker i
TableOf(perfs) ==
  [i \in 1..Len(perfs) |-> [ticker |-> i, performance |-> perfs[i]]]

RankPerformances == {-500, 0, 4000}

RankTables ==
  {TableOf(<<1000, -500, 4000, 0, 4000>>)}
    \cup {TableOf(s) : s \in UNION {[1..n -> RankPerformances] : n \in 1..3}}

RankTopN == {1, 2}

IdleRank ==
  [pc |-> "idle", table |-> <<>>, top_n |-> 1, sorted |-> <<>>,
   top_performers |-> <<>>, bottom_performers |-> <<>>]

\* performance_df.sort_values(by='performance', ascending=False) and head
RankSort(order) ==
  /\ rank.pc = "table"
  /\ order \in SortValues(rank.table, FALSE)
  /\ rank' = [rank EXCEPT !.pc = "sorted", !.sorted = order,
                          !.top_performers = HeadRows(order, rank.top_n)]
  /\ UNCHANGED <<cacheVars, concVars, limitVars, fastVars, runVars>>
  /\ UNCHANGED <<keyq, gmp, api, fluct, lst>>

\* performance_df.tail(top_n).sort_values(by='performance', ascending=True)
RankBottom(order) ==
  /\ rank.pc = "sorted"
  /\ order \in SortValues(TailRows(rank.sorted, rank.top_n), TRUE)
  /\ rank' = [rank EXCEPT !.pc = "done", !.bottom_performers = order]
  /\ UNCHANGED <<cacheVars, concVars, limitVars, fastVars, runVars>>
  /\ UNCHANGED <<keyq, gmp, api, fluct, lst>>

\* ------------------------------------------------------------------------
\* PerformanceService.get_market_performance, one call at a time
\* ------------------------------------------------------------------------
\* the requests made: two known markets and one no listing source knows
GmpParams == {KwKospi10, KwNasdaq10, KwLse10}

\* the key of every request made, here and at the API boundary
GmpKeyOf ==
  [p \in GmpParams \cup {KwKospiBadDate, KwKospiLong}
     |-> GenerateKey(PrefixText, p)]

\* the number each listing source returns, tickers 1..ListingSize
ListingSize == 8

\* top_n of a keyword-argument set
TopNOf(kwargs) ==
  LET i == CHOOSE j \in 1..Len(kwargs) : kwargs[j][1] = "top_n"
  IN CASE kwargs[i][2] = "10" -> 10
       [] kwargs[i][2] = "20" -> 20

\* _get_tickers_by_market without its try/except: a failing source raises
TickersByMarket_NoExcept(market, source_ok) ==
  IF market \in {KOSPI, NASDAQ}
  THEN IF source_ok THEN [n |-> ListingSize, raised |-> FALSE]
       ELSE [n |-> 0, raised |-> TRUE]
  ELSE [n |-> 0, raised |-> FALSE]

\* _get_tickers_by_market: the size of the listing; an unknown market and a
\* failing listing source both give the empty frame
TickersByMarket(market, source_ok) ==
  IF market \in {KOSPI, NASDAQ}
  THEN IF source_ok THEN [n |-> ListingSize, raised |-> FALSE]
       ELSE [n |-> 0, raised |-> FALSE]
  ELSE [n |-> 0, raised |-> FALSE]

\* cache_service.get as a whole: Redis first, then the in-process tier
GetEffect(en, store, mem, ts, t, key, fail) ==
  LET r == GetRedisPart(en, store, t, key, fail)
      m == GetMemoryPart(mem, ts, t, key)
  IN IF r.raised \/ r.found
     THEN [mem |-> mem, ts |-> ts, ret_none |-> ~r.found, ret_val |-> r.val,
           raised |-> r.raised]
     ELSE m

\* cache_service.set as a whole: Redis, and the in-process tier when Redis
\* is not enabled or failed
SetEffect(en, store, mem, ts, t, key, data, ttl, fail) ==
  LET r == SetRedisPart(en, store, t, key, data, ttl, fail)
      m == SetMemoryPart(mem, ts, t, key, data)
  IN IF r.raised \/ r.stored
     THEN [store |-> r.store, mem |-> mem, ts |-> ts, raised |-> r.raised]
     ELSE [store |-> r.store, mem |-> m.mem, ts |-> m.ts, raised |-> m.raised]

\* a result dict is written as the ticker numbers of its top_performers
\* followed by those of its bottom_performers;
\* <<>> is {"top_performers": [], "bottom_performers": []}
EmptyResult == <<>>

ResultOf(top_performers, bottom_performers) ==
  LET rows == top_performers \o bottom_performers
  IN [i \in 1..Len(rows) |-> rows[i].ticker]

\* the lookup is followed at once by the rest of the computation
AfterLookup_NoShortcut(hit) == "listing"

\* if cached_result: return cached_result.  A cached result is a dict with
\* at least the two keys, so it is truthy whenever get returned one.
AfterLookup(hit) == IF hit THEN "return" ELSE "listing"

\* owner: the get_market_performance_fast call of worker thread 1 the call
\* was made from, 0 when it was made directly; ceilings: the ceilings read
\* by the run that computed the result in hand; under: the same for the
\* result last stored under each key; stored: that result
IdleGmp ==
  [pc |-> "idle", p |-> KwKospi10, hit |-> FALSE, cached |-> <<>>,
   listing |-> 0, lru |-> <<>>, listing_calls |-> 0, set_calls |-> 0,
   redis_failed |-> FALSE, result |-> <<>>, raised |-> FALSE,
   requests |-> 0, owner |-> 0, ceilings |-> {}, under |-> <<>>,
   stored |-> <<>>]

GmpUnchanged ==
  UNCHANGED <<concVars, limitVars, fastVars, keyq, api, rank, fluct, lst>>

\* cached_result = cache_service.get("market_performance", market=..., ...)
GmpCall(p, fail) ==
  /\ gmp.pc = "idle"
  /\ gmp.requests < MaxRequests
  /\ fail => enabled
  /\ LET g == GetEffect(enabled, redis_store, memory_cache, cache_timestamps,
                        now, GmpKeyOf[p], fail)
     IN /\ memory_cache' = g.mem
        /\ cache_timestamps' = g.ts
        /\ gmp' = [gmp EXCEPT
                     !.pc = IF g.raised THEN "return"
                            ELSE AfterLookup(~g.ret_none),
                     !.p = p,
                     !.hit = ~g.ret_none,
                     !.cached = g.ret_val,
                     !.listing = 0,
                     !.listing_calls = 0,
                     !.set_calls = 0,
                     !.redis_failed = fail,
                     !.result = g.ret_val,
                     !.raised = g.raised,
                     !.owner = IF fthr[1].pc = "f_inner"
                               THEN fthr[1].calls ELSE 0,
                     !.ceilings = IF ~g.ret_none
                                     /\ GmpKeyOf[p] \in DOMAIN gmp.under
                                  THEN gmp.under[GmpKeyOf[p]] ELSE {}]
  /\ run' = IdleRun
  /\ all_performance_data' = <<>>
  /\ UNCHANGED <<enabled, redis_store, now, ticks, ops, last, prev, lastSet>>
  /\ GmpUnchanged

\* listing = self._get_tickers_by_market_cached(market), an lru_cache over
\* _get_tickers_by_market;  if listing.empty: return the empty structure
GmpListing(source_ok) ==
  /\ gmp.pc = "listing"
  /\ LET market == MarketOf(gmp.p)
         cachedCall == market \in DOMAIN gmp.lru
         fresh == TickersByMarket(market, source_ok)
         n == IF cachedCall THEN gmp.lru[market] ELSE fresh.n
         raised == ~cachedCall /\ fresh.raised
     IN gmp' = [gmp EXCEPT
                  !.pc = IF raised \/ n = 0 THEN "return" ELSE "compute",
                  !.listing = n,
                  !.lru = IF raised THEN @ ELSE DictPut(@, market, n),
                  !.listing_calls = @ + 1,
                  !.result = EmptyResult,
                  !.raised = raised]
  /\ UNCHANGED <<cacheVars, runVars>>
  /\ GmpUnchanged

\* performance_df = self._get_performance_kr(tickers, ...)
GmpComputeKR ==
  /\ gmp.pc = "compute"
  /\ MarketOf(gmp.p) = KOSPI
  /\ KRStart(gmp.listing)

\* performance_df = self._get_performance_us_optimized(tickers, ...)
GmpComputeUS ==
  /\ gmp.pc = "compute"
  /\ MarketOf(gmp.p) # KOSPI
  /\ USStart(gmp.listing)

\* the ranking of performance_df, cache_service.set(..., result, ...) and
\* return result; top and bottom are the outcomes of the two sort_values
GmpRank(top, bottom, fail) ==
  /\ gmp.pc = "compute"
  /\ run.pc = "done"
  /\ fail => enabled
  /\ top \in SortValues(all_performance_data, FALSE)
  /\ bottom \in SortValues(TailRows(top, TopNOf(gmp.p)), TRUE)
  /\ LET result == IF all_performance_data = <<>> THEN EmptyResult
                   ELSE ResultOf(HeadRows(top, TopNOf(gmp.p)), bottom)
         s == SetEffect(enabled, redis_store, memory_cache, cache_timestamps,
                        now, GmpKeyOf[gmp.p], result, PERFORMANCE_CACHE_TTL,
                        fail)
     IN /\ redis_store' = s.store
        /\ memory_cache' = s.mem
        /\ cache_timestamps' = s.ts
        /\ gmp' = [gmp EXCEPT !.pc = "return",
                              !.set_calls = @ + 1,
                              !.redis_failed = @ \/ fail,
                              !.result = result,
                              !.raised = s.raised,
                              !.ceilings = run.ceilings,
                              !.under = DictPut(@, GmpKeyOf[gmp.p],
                                                run.ceilings),
                              !.stored = DictPut(@, GmpKeyOf[gmp.p], result)]
  /\ UNCHANGED <<enabled, now, ticks, ops, last, prev, lastSet, runVars>>
  /\ GmpUnchanged

\* the call returns (or raises) to its caller
GmpReturn ==
  /\ gmp.pc = "return"
  /\ gmp' = [gmp EXCEPT !.pc = "idle", !.requests = @ + 1]
  /\ UNCHANGED <<cacheVars, runVars>>
  /\ GmpUnchanged

\* ------------------------------------------------------------------------
\* FluctuationService.find_fluctuation_stocks, one call at a time
\* ------------------------------------------------------------------------
\* a price series with one row per calendar day, day i at row i
Daily(closes) == [i \in 1..Len(closes) |-> [date |-> i, close |-> closes[i]]]

\* the series the price sources hold: nine daily closes with a decline and
\* a recovery, four closes around a weekend, a flat series, and a decline
\* after which the price stays where it fell to
DeclineAndRecovery == Daily(<<100, 100, 100, 100, 100, 75, 70, 95, 110>>)

AroundWeekend ==
  <<[date |-> 1, close |-> 100], [date |-> 2, close |-> 70],
    [date |-> 5, close |-> 90], [date |-> 6, close |-> 100]>>

DeclineThenFlat == Daily(<<100, 70, 70>>)

SeriesPool ==
  {DeclineAndRecovery, AroundWeekend, Daily(<<100, 100, 100>>), DeclineThenFlat}

\* only the first potential trough of a series is looked at
EventsOf_FirstTroughOnly(ticker, series, decline_period, decline_rate, rebound_period, rebound_rate) ==
  IF Len(series) > decline_period
        /\ (series[decline_period + 1].close - series[1].close) * 100
              <= decline_rate * series[1].close
  THEN <<[ticker |-> ticker, trough_date |-> series[decline_period + 1].date,
          trough_price |-> series[decline_period + 1].close,
          rebound_date |-> series[Len(series)].date,
          rebound_price |-> series[Len(series)].close,
          rebound_performance |-> 0]>>
  ELSE <<>>

\* the events one series yields, in row order.  Rates are percentages;
\* rebound_performance is kept in hundredths of a percent.
\*   decline = (close / close.shift(decline_period) - 1) * 100 <= decline_rate
\*     (a division by a zero close gives inf or NaN, never <= decline_rate)
\*   rebound_df = rows with trough_date < date <= trough_date + rebound_period
\*   rebound_performance = (max / close - 1) * 100 if close > 0 else 0
EventsOf(ticker, series, decline_period, decline_rate, rebound_period, rebound_rate) ==
  LET rows == 1..Len(series)
      Window(i) == {j \in rows : /\ series[j].date > series[i].date
                                 /\ series[j].date
                                      <= series[i].date + rebound_period}
      MaxPrice(i) == CHOOSE m \in {series[j].close : j \in Window(i)} :
                        \A j \in Window(i) : series[j].close <= m
      IdxMax(i) == CHOOSE j \in Window(i) :
                      /\ series[j].close = MaxPrice(i)
                      /\ \A k \in Window(i) :
                           series[k].close = MaxPrice(i) => j <= k
      Emits(i) ==
        /\ i > decline_period
        /\ series[i - decline_period].close > 0
        /\ (series[i].close - series[i - decline_period].close) * 100
              <= decline_rate * series[i - decline_period].close
        /\ Window(i) # {}
        /\ MaxPrice(i) > 0
        /\ IF series[i].close > 0
           THEN (MaxPrice(i) - series[i].close) * 100
                   >= rebound_rate * series[i].close
           ELSE 0 >= rebound_rate
      idx == SelectSeq([i \in rows |-> i], Emits)
  IN [k \in 1..Len(idx) |->
        [ticker |-> ticker,
         trough_date |-> series[idx[k]].date,
         trough_price |-> series[idx[k]].close,
         rebound_date |-> series[IdxMax(idx[k])].date,
         rebound_price |-> MaxPrice(idx[k]),
         rebound_performance |->
           IF series[idx[k]].close > 0
           THEN ((MaxPrice(idx[k]) - series[idx[k]].close) * 10000)
                   \div series[idx[k]].close
           ELSE 0]]

\* the events of the first n columns of close_prices, column by column
RECURSIVE EventsUpTo(_, _, _, _, _, _)
EventsUpTo(n, listing, decline_period, decline_rate, rebound_period, rebound_rate) ==
  IF n = 0 THEN <<>>
  ELSE EventsUpTo(n - 1, listing, decline_period, decline_rate,
                  rebound_period, rebound_rate)
         \o EventsOf(n, listing[n], decline_period, decline_rate,
                     rebound_period, rebound_rate)

\* group.sort_values(by='trough_date', ascending=False); the trough dates
\* of one ticker are distinct
RECURSIVE SortTroughDesc(_)
SortTroughDesc(events) ==
  IF events = <<>> THEN <<>>
  ELSE LET m == CHOOSE i \in 1..Len(events) :
                  \A j \in 1..Len(events) :
                     events[i].trough_date >= events[j].trough_date
       IN <<events[m]>>
            \o SortTroughDesc([k \in 1..(Len(events) - 1) |->
                                 IF k < m THEN events[k] ELSE events[k + 1]])

\* the oldest event of the list instead of the most recent one
LatestEvent_Oldest(events_list) == events_list[Len(events_list)]

\* latest_event = events_list[0]
LatestEvent(events_list) == events_list[1]

\* the summary of one (ticker, name) group
SummaryOf(ticker, all_events) ==
  LET group == SelectSeq(all_events, LAMBDA e : e.ticker = ticker)
      events_list == SortTroughDesc(group)
      latest_event == LatestEvent(events_list)
  IN [ticker |-> ticker,
      occurrence_count |-> Len(group),
      recent_trough_date |-> latest_event.trough_date,
      recent_trough_price |-> latest_event.trough_price,
      recent_rebound_date |-> latest_event.rebound_date,
      recent_rebound_performance |-> latest_event.rebound_performance,
      events |-> events_list]

\* sorted(aggregated_results, key=occurrence_count, reverse=True) over the
\* groups in groupby order (groupby sorts its keys: ascending ticker symbol);
\* the sort is stable
RECURSIVE SortSummaries(_, _)
SortSummaries(tickers, all_events) ==
  IF tickers = {} THEN <<>>
  ELSE LET Count(t) == SummaryOf(t, all_events).occurrence_count
           t == CHOOSE x \in tickers :
                  \A y \in tickers :
                     Count(x) > Count(y) \/ (Count(x) = Count(y) /\ x <= y)
       IN <<SummaryOf(t, all_events)>>
            \o SortSummaries(tickers \ {t}, all_events)

\* _process_and_aggregate_results
ProcessAndAggregateResults(all_events) ==
  SortSummaries({all_events[k].ticker : k \in 1..Len(all_events)}, all_events)

\* the orders in which the symbols of a listing of n tickers can stand: the
\* ticker at position t has the symbol that is order[t]-th in symbol order
\* (the listing sources are not sorted by symbol)
SymbolOrders(n) ==
  {o \in [1..n -> 1..n] : \A i, j \in 1..n : o[i] = o[j] => i = j}

\* "ticker": ticker in the events appended for the ticker at a position
WithSymbols(events, symbols) ==
  [k \in 1..Len(events) |-> [events[k] EXCEPT !.ticker = symbols[@]]]

IdleFluct ==
  [pc |-> "idle", country |-> "KR", series |-> <<>>, symbols |-> <<>>,
   decline_period |-> 1,
   decline_rate |-> 0, rebound_period |-> 1, rebound_rate |-> 0, i |-> 0,
   fetched |-> 0, all_found_events |-> <<>>, result |-> <<>>,
   raised |-> FALSE, calls |-> 0]

FluctUnchanged ==
  UNCHANGED <<cacheVars, concVars, limitVars, fastVars, runVars,
              keyq, gmp, api, rank, lst>>

\* find_fluctuation_stocks: tickers = self._get_tickers_by_market(market),
\* which is [] for an unknown market and when the listing source raises;
\* listing[t] is the series the price source holds for ticker t
FluctCall(country, source_ok, listing, decline_period, decline_rate, rebound_period, rebound_rate) ==
  /\ fluct.pc = "idle"
  /\ fluct.calls < MaxFluctCalls
  /\ LET tickers == IF source_ok THEN listing ELSE <<>>
     IN \E symbols \in SymbolOrders(Len(tickers)) :
        fluct' = [IdleFluct EXCEPT
                    !.pc = IF tickers = <<>> THEN "return"
                           ELSE IF country = "KR" THEN "kr_loop"
                           ELSE IF country = "US" THEN "us_download"
                           ELSE "return",
                    !.country = country,
                    !.series = tickers,
                    !.symbols = symbols,
                    !.decline_period = decline_period,
                    !.decline_rate = decline_rate,
                    !.rebound_period = rebound_period,
                    !.rebound_rate = rebound_rate,
                    !.calls = fluct.calls]
  /\ FluctUnchanged

\* one pass of the loop of _find_fluctuation_stocks_kr; a raising
\* stock.get_market_ohlcv is caught and the loop continues
FluctKRStep(fetch_ok) ==
  /\ fluct.pc = "kr_loop"
  /\ fluct.i < Len(fluct.series)
  /\ fluct' = [fluct EXCEPT
                 !.i = @ + 1,
                 !.fetched = IF fetch_ok THEN @ + 1 ELSE @,
                 !.all_found_events =
                    IF fetch_ok
                    THEN @ \o WithSymbols(
                                 EventsOf(fluct.i + 1,
                                          fluct.series[fluct.i + 1],
                                          fluct.decline_period,
                                          fluct.decline_rate,
                                          fluct.rebound_period,
                                          fluct.rebound_rate),
                                 fluct.symbols)
                    ELSE @]
  /\ FluctUnchanged

\* return self._process_and_aggregate_results(all_found_events)
FluctKRDone ==
  /\ fluct.pc = "kr_loop"
  /\ fluct.i >= Len(fluct.series)
  /\ fluct' = [fluct EXCEPT
                 !.pc = "return",
                 !.result = ProcessAndAggregateResults(fluct.all_found_events)]
  /\ FluctUnchanged

\* _find_fluctuation_stocks_us: one yf.download for all tickers, which
\* raises (caught), returns an empty frame, or returns the closes
FluctUS(outcome) ==
  /\ fluct.pc = "us_download"
  /\ LET all_found_events ==
           IF outcome = "ok"
           THEN WithSymbols(
                  EventsUpTo(Len(fluct.series), fluct.series,
                             fluct.decline_period, fluct.decline_rate,
                             fluct.rebound_period, fluct.rebound_rate),
                  fluct.symbols)
           ELSE <<>>
     IN fluct' = [fluct EXCEPT
                    !.pc = "return",
                    !.fetched = IF outcome = "ok" THEN Len(fluct.series) ELSE 0,
                    !.all_found_events = all_found_events,
                    !.result = IF outcome = "empty" THEN <<>>
                               ELSE ProcessAndAggregateResults(
                                      all_found_events)]
  /\ FluctUnchanged

\* the call returns to its caller
FluctReturn ==
  /\ fluct.pc = "return"
  /\ fluct' = [fluct EXCEPT !.pc = "idle", !.calls = @ + 1]
  /\ FluctUnchanged

\* ------------------------------------------------------------------------
\* The API boundary: analyze_performance and analyze_performance_fast in
\* api/analysis.py, one request at a time, served by worker thread 1
\* ------------------------------------------------------------------------
\* the value of a keyword argument
ArgOf(kwargs, name) ==
  kwargs[CHOOSE j \in 1..Len(kwargs) : kwargs[j][1] = name][2]

\* the characters of the date texts the requests carry
DateChars(date) ==
  CASE date = "2024-01-01" -> <<"2","0","2","4","-","0","1","-","0","1">>
    [] date = "2024-06-30" -> <<"2","0","2","4","-","0","6","-","3","0">>
    [] date = "2022-01-01" -> <<"2","0","2","2","-","0","1","-","0","1">>
    [] date = "2024/01/01" -> <<"2","0","2","4","/","0","1","/","0","1">>

\* datetime.strptime(text, '%Y-%m-%d') for zero-padded texts: ok = no
\* ValueError; day = the day number of the date (proleptic Gregorian)
Strptime(text) ==
  LET wellFormed == /\ Len(text) = 10
                    /\ text[5] = "-" /\ text[8] = "-"
                    /\ \A i \in {1, 2, 3, 4, 6, 7, 9, 10} : IsDigitChar(text[i])
      N(i) == DigitVal(text[i])
      y == 1000 * N(1) + 100 * N(2) + 10 * N(3) + N(4)
      m == 10 * N(6) + N(7)
      d == 10 * N(9) + N(10)
      leap == (y % 4 = 0 /\ y % 100 # 0) \/ y % 400 = 0
      monthDays == <<31, IF leap THEN 29 ELSE 28, 31, 30, 31, 30, 31, 31, 30,
                     31, 30, 31>>
      before == <<0, 31, 59, 90, 120, 151, 181, 212, 243, 273, 304, 334>>
      y1 == y - 1
  IN IF wellFormed
     THEN IF y >= 1 /\ m \in 1..12 /\ d >= 1 /\ d <= monthDays[m]
          THEN [ok |-> TRUE,
                day |-> 365 * y1 + (y1 \div 4) - (y1 \div 100) + (y1 \div 400)
                          + before[m] + (IF leap /\ m > 2 THEN 1 ELSE 0) + d]
          ELSE [ok |-> FALSE, day |-> 0]
     ELSE [ok |-> FALSE, day |-> 0]

\* PerformanceAnalysisRequest: top_n: int = Field(5, ge=1, le=20); a request
\* failing the schema is answered 422 before the handler runs
SchemaStatus(top_n) == IF top_n >= 1 /\ top_n <= 20 THEN 0 ELSE 422

\* the checks at the head of analyze_performance: 0 = passed
AnalyzeChecks(kwargs, top_n) ==
  LET start_dt == Strptime(DateChars(ArgOf(kwargs, "start_date")))
      end_dt == Strptime(DateChars(ArgOf(kwargs, "end_date")))
  IN IF top_n > 50 THEN 400
     ELSE IF ~start_dt.ok \/ ~end_dt.ok THEN 400
     ELSE IF end_dt.day - start_dt.day > 365 THEN 400
     ELSE 0

\* the requests sent
ApiParams == {KwKospi10, KwKospiBadDate, KwKospiLong}
ApiTopN == {10, 21}

IdleApi ==
  [pc |-> "idle", endpoint |-> "none", p |-> KwKospi10, top_n |-> 0,
   status |-> 0, body |-> "none", timed_out |-> FALSE, base |-> 0,
   fbase |-> 0, requests |-> 0]

ApiUnchanged ==
  UNCHANGED <<cacheVars, concVars, limitVars, fastVars, runVars,
              keyq, gmp, rank, fluct, lst>>

\* a request arrives at endpoint "analysis" (analyze_performance) or "fast"
\* (analyze_performance_fast); it is rejected or handed to a worker thread
ApiRequest(endpoint, p, top_n) ==
  /\ api.pc \in {"idle", "responded"}
  /\ api.requests < MaxApiRequests
  /\ gmp.pc = "idle"
  /\ fthr[1].pc = "idle"
  /\ LET rejected ==
           IF SchemaStatus(top_n) # 0 THEN SchemaStatus(top_n)
           ELSE IF endpoint = "analysis" THEN AnalyzeChecks(p, top_n)
           ELSE 0
     IN api' = [IdleApi EXCEPT
                  !.pc = IF rejected # 0 THEN "responded" ELSE "awaiting",
                  !.endpoint = endpoint,
                  !.p = p,
                  !.top_n = top_n,
                  !.status = rejected,
                  !.base = gmp.requests,
                  !.fbase = fthr[1].calls,
                  !.requests = api.requests + 1]
  /\ ApiUnchanged

\* the worker thread has finished and the handler answers
ApiRespond ==
  /\ api.pc = "awaiting"
  /\ gmp.pc = "idle"
  /\ gmp.requests > api.base
  /\ api.endpoint = "fast" => (fthr[1].pc = "idle" /\ fthr[1].calls > api.fbase)
  /\ LET empty == gmp.result = EmptyResult
         status == IF gmp.raised THEN 500
                   ELSE IF api.endpoint = "analysis" /\ empty THEN 404
                   ELSE 200
     IN api' = [api EXCEPT !.pc = "responded",
                           !.status = status,
                           !.body = IF status = 200 THEN "result" ELSE "detail"]
  /\ ApiUnchanged

\* asyncio.wait_for gives up (60 s, fast: 30 s) before the worker thread has
\* finished; the thread itself runs on.  analyze_performance answers 408 in
\* except asyncio.TimeoutError, analyze_performance_fast has only
\* except Exception and answers 500.
ApiTimeout ==
  /\ api.pc = "awaiting"
  /\ ~(gmp.pc = "idle" /\ gmp.requests > api.base)
  /\ api' = [api EXCEPT !.pc = "responded",
                        !.status = IF api.endpoint = "analysis" THEN 408
                                   ELSE 500,
                        !.body = "detail",
                        !.timed_out = TRUE]
  /\ ApiUnchanged

\* ------------------------------------------------------------------------
\* _get_tickers_by_market_cached: functools.lru_cache(maxsize=100) over
\* _get_tickers_by_market, entered by request threads
\* ------------------------------------------------------------------------
ListThreadSet == 1..ConcThreads

ListedMarkets == {KOSPI, NASDAQ}

\* the text of another market identifier a request can carry
OtherMarket(i) == <<"X", DigitChar(i \div 10), DigitChar(i % 10)>>

\* the lru_cache holds this market's entry
LruHit_Never(lru, market) == FALSE

\* the lru_cache holds this market's entry
LruHit(lru, market) == market \in DOMAIN lru

\* order with market moved to (or put at) its most recently used end
Touch(order, market) ==
  SelectSeq(order, LAMBDA m : m # market) \o <<market>>

IdleLister ==
  [pc |-> "idle", market |-> <<>>, n |-> 0, hit |-> FALSE, calls |-> 0]

\* lru: the entries of the lru_cache, market -> size of the listing it holds;
\* order: its markets from least to most recently used;
\* reached: calls of _get_tickers_by_market made so far, per market;
\* evicted: times the market's entry was dropped as least recently used;
\* overlaps: misses for the market while another call for it was in flight
IdleLst ==
  [lru |-> <<>>, order |-> <<>>,
   thr |-> [t \in ListThreadSet |-> IdleLister],
   reached |-> [m \in ListedMarkets |-> 0],
   evicted |-> [m \in ListedMarkets |-> 0],
   overlaps |-> [m \in ListedMarkets |-> 0]]

ListUnchanged ==
  UNCHANGED <<cacheVars, concVars, limitVars, fastVars, runVars,
              keyq, gmp, api, rank, fluct>>

\* listing = self._get_tickers_by_market_cached(market): the wrapper looks
\* the market up; on a hit it returns the entry and marks it most recently
\* used
ListLookup(t, market) ==
  /\ lst.thr[t].pc = "idle"
  /\ lst.thr[t].calls < MaxListCalls
  /\ IF LruHit(lst.lru, market)
     THEN lst' = [lst EXCEPT
                    !.order = Touch(@, market),
                    !.thr[t] = [pc |-> "idle", market |-> market,
                                n |-> lst.lru[market], hit |-> TRUE,
                                calls |-> @.calls + 1]]
     ELSE lst' = [lst EXCEPT
                    !.thr[t] = [pc |-> "source", market |-> market, n |-> 0,
                                hit |-> FALSE, calls |-> @.calls + 1],
                    !.overlaps[market] =
                       IF \E u \in ListThreadSet \ {t} :
                            /\ lst.thr[u].pc # "idle"
                            /\ lst.thr[u].market = market
                       THEN @ + 1 ELSE @]
  /\ ListUnchanged

\* on a miss the wrapper calls _get_tickers_by_market(market), holding no lock
ListSource(t, source_ok) ==
  /\ lst.thr[t].pc = "source"
  /\ lst' = [lst EXCEPT
               !.thr[t].pc = "store",
               !.thr[t].n = TickersByMarket(lst.thr[t].market, source_ok).n,
               !.reached[lst.thr[t].market] = @ + 1]
  /\ ListUnchanged

\* the wrapper stores the result unless the market got an entry during the
\* call; a full cache drops its least recently used entry first
ListStore(t) ==
  /\ lst.thr[t].pc = "store"
  /\ LET market == lst.thr[t].market
         full == Len(lst.order) >= LruMaxSize
         oldest == lst.order[1]
     IN IF market \in DOMAIN lst.lru
        THEN lst' = [lst EXCEPT !.thr[t].pc = "idle"]
        ELSE lst' = [lst EXCEPT
                       !.thr[t].pc = "idle",
                       !.lru = DictPut(IF full THEN DictDel(@, oldest) ELSE @,
                                       market, lst.thr[t].n),
                       !.order = (IF full THEN Tail(@) ELSE @) \o <<market>>,
                       !.evicted = IF full /\ oldest \in ListedMarkets
                                   THEN [@ EXCEPT ![oldest] = @ + 1] ELSE @]
  /\ ListUnchanged

\* no request of any kind is in progress
ReqIdle ==
  /\ keyq = IdleKeyq
  /\ gmp = IdleGmp
  /\ api = IdleApi
  /\ rank = IdleRank
  /\ fluct = IdleFluct
  /\ lst = IdleLst

\* ------------------------------------------------------------------------
\* Initial states and specifications
\* ------------------------------------------------------------------------
CacheInit ==
  /\ enabled \in BOOLEAN
  /\ redis_store = <<>>
  /\ memory_cache = <<>>
  /\ cache_timestamps = <<>>
  /\ now = 0
  /\ ticks = 0
  /\ ops = 0
  /\ last = NoCall
  /\ prev = NoCall
  /\ lastSet = <<>>

\* PerformanceService.__init__: the limits come from the settings
LimitsInit ==
  /\ max_tickers = PERFORMANCE_MAX_TICKERS
  /\ chunk_size = PERFORMANCE_CHUNK_SIZE
  /\ max_chunks = PERFORMANCE_MAX_CHUNKS

ConcIdle == cthr = [t \in Threads |-> IdleThread]

FastIdle == fthr = [t \in FastThreadSet |-> IdleFast]

RunIdle ==
  /\ run = IdleRun
  /\ all_performance_data = <<>>

Init ==
  CacheInit /\ ConcIdle /\ LimitsInit /\ FastIdle /\ RunIdle /\ ReqIdle

\* get and set on two logical keys, with the clock advancing
Next ==
  \/ \E p \in {KwKospi10, KwNasdaq10}, fail \in BOOLEAN : CacheGet(p, fail)
  \/ \E p \in {KwKospi10, KwNasdaq10}, v \in JsonValues, ttl \in TtlValues,
        fail \in BOOLEAN : CacheSet(p, v, ttl, fail)
  \/ \E d \in TickSteps : Tick(d)

Spec == Init /\ [][Next]_vars

\* the cache with its administration calls
NextAdmin ==
  \/ \E p \in ParamSets, fail \in BOOLEAN : CacheGet(p, fail)
  \/ \E p \in ParamSets, fail \in BOOLEAN :
        CacheSet(p, <<2, 1>>, PERFORMANCE_CACHE_TTL, fail)
  \/ \E pattern \in Patterns, fail \in BOOLEAN : CacheClear(pattern, fail)
  \/ \E market \in Markets, fail \in BOOLEAN : PerfClearCache(market, fail)
  \/ \E fail \in BOOLEAN : CacheGetStats(fail)
  \/ Tick(PERFORMANCE_CACHE_TTL)

SpecAdmin == Init /\ [][NextAdmin]_vars

\* request threads inside CacheService at the same time, Redis not enabled;
\* time.time() is far past the TTL when the process starts
ConcInit ==
  /\ enabled = FALSE
  /\ redis_store = <<>>
  /\ memory_cache = <<>>
  /\ cache_timestamps = <<>>
  /\ now = PERFORMANCE_CACHE_TTL
  /\ ticks = 0
  /\ ops = 0
  /\ last = NoCall
  /\ prev = NoCall
  /\ lastSet = <<>>
  /\ ConcIdle /\ LimitsInit /\ FastIdle /\ RunIdle /\ ReqIdle

NextConc ==
  \/ \E t \in Threads : ConcCallGet(t, KwKospi10)
  \/ \E t \in Threads : ConcCallSet(t, KwKospi10, <<2, 1>>)
  \/ \E t \in Threads : GCheck(t)
  \/ \E t \in Threads : GTimestamp(t)
  \/ \E t \in Threads : GCompare(t)
  \/ \E t \in Threads : GDelMemory(t)
  \/ \E t \in Threads : GDelTimestamp(t)
  \/ \E t \in Threads : SPutMemory(t)
  \/ \E t \in Threads : SPutTimestamp(t)
  \/ \E t \in Threads : SLimit(t)
  \/ Tick(PERFORMANCE_CACHE_TTL)

SpecConc == ConcInit /\ [][NextConc]_vars

FastInit == Init /\ enabled = FALSE

FastSteps(t) ==
  \/ FSaveMaxTickers(t)
  \/ FSaveChunkSize(t)
  \/ FSaveMaxChunks(t)
  \/ FSetMaxTickers(t)
  \/ FSetChunkSize(t)
  \/ FSetMaxChunks(t)
  \/ \E outcome \in {"returned", "raised"} : FInner(t, outcome)
  \/ FRestoreMaxTickers(t)
  \/ FRestoreChunkSize(t)
  \/ FRestoreMaxChunks(t)

\* get_market_performance_fast, one call in flight at a time
NextFastAlone ==
  \/ \E t \in FastThreadSet : FastCallAlone(t)
  \/ \E t \in FastThreadSet : FastSteps(t)

SpecFastAlone == FastInit /\ [][NextFastAlone]_vars

\* get_market_performance_fast calls overlapping on threadpool threads
NextFast ==
  \/ \E t \in FastThreadSet : FastCall(t)
  \/ \E t \in FastThreadSet : FastSteps(t)

SpecFast == FastInit /\ [][NextFast]_vars

\* sizes of the listing a run starts from
TickerCounts == {250, 1200}

\* a screening run, under the configured limits or, inside
\* get_market_performance_fast, under the fast limits
RunInit ==
  /\ CacheInit /\ enabled = FALSE
  /\ ConcIdle /\ FastIdle /\ RunIdle /\ ReqIdle
  /\ \E limits \in {<<PERFORMANCE_MAX_TICKERS, PERFORMANCE_CHUNK_SIZE,
                       PERFORMANCE_MAX_CHUNKS>>,
                     <<FastMaxTickers, FastChunkSize, FastMaxChunks>>} :
       /\ max_tickers = limits[1]
       /\ chunk_size = limits[2]
       /\ max_chunks = limits[3]

NextRun ==
  \/ \E n \in TickerCounts : USStart(n)
  \/ USLoop
  \/ \E outcome \in {"raise", "empty", "ok"} : USDownload(outcome)
  \/ USProcess
  \/ \E n \in TickerCounts : KRStart(n)
  \/ KRStep
  \/ KRDone

SpecRun == RunInit /\ [][NextRun]_vars

\* _generate_key on the same keyword arguments supplied in two orders
KeyInit ==
  /\ CacheInit /\ enabled = FALSE
  /\ ConcIdle /\ LimitsInit /\ FastIdle /\ RunIdle
  /\ keyq \in {[IdleKeyq EXCEPT !.pc = "drawn", !.p = p, !.first = a,
                                !.second = b] :
                 p \in {KwKospi10, KwNasdaq10}, a \in Orders, b \in Orders}
  /\ gmp = IdleGmp /\ api = IdleApi /\ rank = IdleRank /\ fluct = IdleFluct
  /\ lst = IdleLst

NextKey == GenerateFirst \/ GenerateSecond

SpecKey == KeyInit /\ [][NextKey]_vars

\* the ranking of a table of collected records
RankInit ==
  /\ CacheInit /\ enabled = FALSE
  /\ ConcIdle /\ LimitsInit /\ FastIdle /\ RunIdle
  /\ rank \in {[IdleRank EXCEPT !.pc = "table", !.table = t, !.top_n = n] :
                 t \in RankTables, n \in RankTopN}
  /\ keyq = IdleKeyq /\ gmp = IdleGmp /\ api = IdleApi /\ fluct = IdleFluct
  /\ lst = IdleLst

NextRank ==
  \/ \E order \in SortValues(rank.table, FALSE) : RankSort(order)
  \/ \E order \in SortValues(TailRows(rank.sorted, rank.top_n), TRUE) :
        RankBottom(order)

SpecRank == RankInit /\ [][NextRank]_vars

\* the steps of one get_market_performance call after its cache lookup
GmpSteps ==
  \/ \E source_ok \in BOOLEAN : GmpListing(source_ok)
  \/ GmpComputeKR
  \/ KRStep
  \/ KRDone
  \/ \E top \in SortValues(all_performance_data, FALSE) :
       \E bottom \in SortValues(TailRows(top, TopNOf(gmp.p)), TRUE) :
         \E fail \in BOOLEAN : GmpRank(top, bottom, fail)
  \/ GmpReturn

\* the steps of its foreign path
GmpStepsUS ==
  \/ GmpComputeUS
  \/ USLoop
  \/ \E outcome \in {"raise", "empty", "ok"} : USDownload(outcome)
  \/ USProcess

\* get_market_performance calls, with the cache statistics read between them
NextGmp ==
  \/ \E p \in GmpParams, fail \in BOOLEAN : GmpCall(p, fail)
  \/ GmpSteps
  \/ GmpStepsUS
  \/ \E fail \in BOOLEAN : gmp.pc = "idle" /\ CacheGetStats(fail)

SpecGmp == Init /\ [][NextGmp]_vars

\* the two services, answering one call at a time
NextServices ==
  \/ \E p \in GmpParams, fail \in BOOLEAN : fluct.pc = "idle" /\ GmpCall(p, fail)
  \/ GmpSteps
  \/ GmpStepsUS
  \/ \E country \in {"KR", "US"}, source_ok \in BOOLEAN,
        listing \in {<<>>, <<DeclineAndRecovery>>} :
          gmp.pc = "idle" /\ FluctCall(country, source_ok, listing, 5, -20, 3, 20)
  \/ \E fetch_ok \in BOOLEAN : FluctKRStep(fetch_ok)
  \/ FluctKRDone
  \/ \E outcome \in {"raise", "empty", "ok"} : FluctUS(outcome)
  \/ FluctReturn

SpecServices == Init /\ [][NextServices]_vars

\* find_fluctuation_stocks over listings of up to two tickers, with a
\* positive and a zero rebound_rate
FluctListings ==
  {<<>>} \cup {<<a>> : a \in SeriesPool}
         \cup {<<a, b>> : a \in SeriesPool, b \in SeriesPool}

NextFluct ==
  \/ \E country \in {"KR", "US", "JP"}, source_ok \in BOOLEAN,
        listing \in FluctListings, decline_period \in {1, 5},
        rebound_period \in {1, 3}, rebound_rate \in {20, 0} :
          FluctCall(country, source_ok, listing, decline_period, -20,
                    rebound_period, rebound_rate)
  \/ \E fetch_ok \in BOOLEAN : FluctKRStep(fetch_ok)
  \/ FluctKRDone
  \/ \E outcome \in {"raise", "empty", "ok"} : FluctUS(outcome)
  \/ FluctReturn

\* the cache plays no part in a find_fluctuation_stocks call
FluctInit == Init /\ enabled = FALSE

SpecFluct == FluctInit /\ [][NextFluct]_vars

\* requests at the API boundary; worker thread 1 runs the service call and
\* keeps running when the handler has given up waiting
ApiAccepted == api.pc = "awaiting" \/ api.timed_out

NextApi ==
  \/ \E endpoint \in {"analysis", "fast"}, p \in ApiParams, top_n \in ApiTopN :
        ApiRequest(endpoint, p, top_n)
  \/ \E fail \in BOOLEAN :
        /\ ApiAccepted
        /\ gmp.requests = api.base
        /\ api.endpoint = "fast" => fthr[1].pc = "f_inner"
        /\ GmpCall(api.p, fail)
  \/ GmpSteps
  \/ ApiAccepted /\ api.endpoint = "fast" /\ fthr[1].calls = api.fbase
       /\ FastCallAlone(1)
  \/ FSaveMaxTickers(1)
  \/ FSaveChunkSize(1)
  \/ FSaveMaxChunks(1)
  \/ FSetMaxTickers(1)
  \/ FSetChunkSize(1)
  \/ FSetMaxChunks(1)
  \/ /\ gmp.pc = "idle"
     /\ gmp.requests > api.base
     /\ FInner(1, IF gmp.raised THEN "raised" ELSE "returned")
  \/ FRestoreMaxTickers(1)
  \/ FRestoreChunkSize(1)
  \/ FRestoreMaxChunks(1)
  \/ ApiRespond
  \/ ApiTimeout

SpecApi == Init /\ [][NextApi]_vars

\* get_market_performance called directly and from get_market_performance_fast
\* on the one PerformanceService instance: worker thread 1 serves one request
\* after the other, full or fast; thread 2 runs get_market_performance_fast
\* at any time (its inner call is not followed)
MixedParams == {KwKospi10, KwNasdaq10}

\* thread 1 has reached  return self.get_market_performance(...)
InnerPending ==
  fthr[1].pc = "f_inner" /\ gmp.pc = "idle" /\ gmp.owner # fthr[1].calls

\* that call has returned or raised
InnerReturned ==
  fthr[1].pc = "f_inner" /\ gmp.pc = "idle" /\ gmp.owner = fthr[1].calls

NextMixed ==
  \/ \E p \in MixedParams : fthr[1].pc = "idle" /\ GmpCall(p, FALSE)
  \/ \E p \in MixedParams : InnerPending /\ GmpCall(p, FALSE)
  \/ GmpSteps
  \/ GmpStepsUS
  \/ gmp.pc = "idle" /\ gmp.requests < MaxRequests /\ fthr[2].pc = "idle" /\ FastCall(1)
  \/ FSaveMaxTickers(1)
  \/ FSaveChunkSize(1)
  \/ FSaveMaxChunks(1)
  \/ FSetMaxTickers(1)
  \/ FSetChunkSize(1)
  \/ FSetMaxChunks(1)
  \/ InnerReturned /\ FInner(1, IF gmp.raised THEN "raised" ELSE "returned")
  \/ FRestoreMaxTickers(1)
  \/ FRestoreChunkSize(1)
  \/ FRestoreMaxChunks(1)
  \/ fthr[1].pc = "idle" /\ gmp.pc # "idle" /\ fthr[2].calls = 0 /\ FastCall(2)
  \/ FastSteps(2)

SpecMixed == FastInit /\ [][NextMixed]_vars


\* ------------------------------------------------------------------------
\* The in-process tier at its size limit
\* ------------------------------------------------------------------------
\* hashlib.md5(...).hexdigest()[:8] of the dumps of 100 earlier requests:
\* market KOSPI, end_date 2024-06-30, top_n 10 and the start dates
\* 2023-01-01, 2023-01-02, ... 2023-04-10, in that order
EarlierHashes ==
  <<
    <<"6","3","9","f","5","7","7","c">>, <<"2","9","3","b","0","2","8","3">>, <<"1","f","2","f","c","3","a","6">>, <<"4","7","d","5","c","5","8","1">>,
    <<"f","b","5","a","f","2","2","8">>, <<"1","e","a","3","f","0","5","c">>, <<"1","4","6","7","f","9","3","4">>, <<"a","0","e","7","4","f","6","6">>,
    <<"6","8","4","d","9","c","f","4">>, <<"6","b","1","5","9","1","b","4">>, <<"7","9","c","1","c","6","5","a">>, <<"f","5","4","9","5","6","a","7">>,
    <<"7","4","e","1","f","f","5","0">>, <<"e","2","8","b","a","1","0","1">>, <<"0","0","0","c","5","0","a","8">>, <<"2","a","0","a","4","f","c","7">>,
    <<"2","6","3","a","8","2","0","e">>, <<"c","0","f","9","e","9","d","6">>, <<"2","7","f","2","1","0","5","4">>, <<"4","4","2","0","a","1","4","3">>,
    <<"5","9","c","f","2","4","a","7">>, <<"5","2","6","9","9","e","e","f">>, <<"6","2","7","d","5","d","b","c">>, <<"6","e","3","a","8","1","d","8">>,
    <<"a","6","c","a","e","7","d","5">>, <<"4","b","3","a","e","c","e","8">>, <<"b","e","e","6","9","0","a","2">>, <<"7","f","6","9","a","f","a","1">>,
    <<"c","9","b","8","8","5","e","a">>, <<"e","e","0","4","4","0","e","a">>, <<"c","0","f","a","2","9","0","9">>, <<"4","d","8","6","3","5","5","8">>,
    <<"8","5","6","9","4","2","6","3">>, <<"4","a","e","e","8","4","e","c">>, <<"b","e","4","b","f","d","1","e">>, <<"6","a","5","1","c","8","2","a">>,
    <<"9","0","0","e","e","c","d","b">>, <<"a","2","6","4","d","d","f","e">>, <<"b","0","c","4","b","2","2","1">>, <<"2","8","a","c","6","f","5","0">>,
    <<"f","4","1","e","f","8","4","c">>, <<"d","f","8","a","8","7","b","b">>, <<"0","6","d","c","e","7","e","0">>, <<"b","5","4","6","a","5","c","d">>,
    <<"c","7","7","d","2","3","7","d">>, <<"5","5","3","9","7","2","9","3">>, <<"1","a","a","3","6","a","a","9">>, <<"c","e","6","0","0","a","9","c">>,
    <<"d","c","3","a","1","d","7","1">>, <<"0","d","b","f","6","c","d","0">>, <<"3","6","d","b","b","e","b","f">>, <<"4","5","9","b","3","9","6","5">>,
    <<"d","a","e","3","b","e","b","a">>, <<"2","a","c","7","2","b","0","f">>, <<"b","e","c","4","f","b","6","c">>, <<"9","5","3","b","2","5","b","0">>,
    <<"9","e","0","b","1","a","2","2">>, <<"7","9","f","a","2","2","5","1">>, <<"a","4","2","a","7","d","8","5">>, <<"c","c","4","8","1","8","8","7">>,
    <<"b","3","9","b","4","5","d","5">>, <<"2","c","b","e","1","5","c","7">>, <<"8","6","b","8","c","6","1","6">>, <<"f","b","c","f","9","b","2","d">>,
    <<"d","9","0","c","b","0","a","f">>, <<"7","0","d","a","8","2","f","9">>, <<"7","c","e","1","3","d","3","7">>, <<"1","5","c","a","5","e","8","e">>,
    <<"6","6","0","1","4","e","3","a">>, <<"1","f","d","d","2","6","1","f">>, <<"2","2","2","f","1","1","4","2">>, <<"a","f","5","f","0","a","8","f">>,
    <<"0","a","c","3","6","2","3","a">>, <<"7","b","e","4","b","4","c","a">>, <<"9","8","f","0","4","f","4","2">>, <<"8","9","b","2","9","2","f","8">>,
    <<"1","f","1","0","8","1","d","4">>, <<"2","3","5","7","a","c","c","8">>, <<"5","2","8","6","f","e","8","9">>, <<"5","1","5","c","f","3","2","1">>,
    <<"8","b","7","c","b","3","b","6">>, <<"6","e","0","b","d","f","3","c">>, <<"b","5","1","a","e","0","0","c">>, <<"3","d","8","f","0","1","f","d">>,
    <<"a","8","3","c","4","7","3","7">>, <<"4","b","f","f","4","4","9","a">>, <<"5","0","8","c","5","8","6","b">>, <<"5","a","7","d","2","0","1","a">>,
    <<"3","8","3","f","2","d","8","c">>, <<"f","2","2","4","8","1","8","9">>, <<"4","8","f","4","d","7","8","4">>, <<"e","9","a","6","b","1","1","c">>,
    <<"7","e","2","2","2","7","8","c">>, <<"e","a","d","3","1","c","3","c">>, <<"c","d","0","d","8","4","2","9">>, <<"2","2","0","6","e","3","b","a">>,
    <<"6","c","6","4","d","5","5","f">>, <<"e","1","9","d","e","f","8","a">>, <<"a","6","8","a","a","f","9","5">>, <<"b","3","3","c","2","8","e","4">>
  >>

\* the keys _generate_key gave those requests
EarlierKey(n) == PrefixText \o <<":">> \o EarlierHashes[n]

\* memory_cache and cache_timestamps after the last count of those requests
\* were stored one second apart, the latest of them one second ago
FullInit ==
  /\ enabled \in BOOLEAN
  /\ redis_store = <<>>
  /\ \E count \in {MemoryCacheLimit - 1, MemoryCacheLimit} :
       LET first == Len(EarlierHashes) - count + 1
           keys == {EarlierKey(n) : n \in first..Len(EarlierHashes)}
           nOf(k) == CHOOSE n \in first..Len(EarlierHashes) : EarlierKey(n) = k
       IN /\ memory_cache = [k \in keys |-> <<2, 1>>]
          /\ cache_timestamps = [k \in keys |-> nOf(k)]
  /\ now = Len(EarlierHashes) + 1
  /\ ticks = 0
  /\ ops = 0
  /\ last = NoCall
  /\ prev = NoCall
  /\ lastSet = <<>>
  /\ ConcIdle /\ LimitsInit /\ FastIdle /\ RunIdle /\ ReqIdle

\* set on three more keys, the clock advancing once
NextFull ==
  \/ \E p \in ParamSets, fail \in BOOLEAN :
        CacheSet(p, <<2, 1>>, PERFORMANCE_CACHE_TTL, fail)
  \/ ticks = 0 /\ Tick(1)

SpecFull == FullInit /\ [][NextFull]_vars

\* the lru_cache of a new process, or after KOSPI and then 99 other market
\* identifiers were resolved
ListInit ==
  /\ CacheInit /\ enabled = FALSE
  /\ ConcIdle /\ LimitsInit /\ FastIdle /\ RunIdle
  /\ keyq = IdleKeyq /\ gmp = IdleGmp /\ api = IdleApi /\ rank = IdleRank
  /\ fluct = IdleFluct
  /\ lst \in {IdleLst,
              [IdleLst EXCEPT
                 !.lru = [m \in {KOSPI} \cup
                                {OtherMarket(i) : i \in 1..(LruMaxSize - 1)} |->
                            IF m = KOSPI THEN ListingSize ELSE 0],
                 !.order = <<KOSPI>> \o
                           [i \in 1..(LruMaxSize - 1) |-> OtherMarket(i)],
                 !.reached[KOSPI] = 1]}

NextList ==
  \/ \E t \in ListThreadSet, market \in ListedMarkets : ListLookup(t, market)
  \/ \E t \in ListThreadSet, source_ok \in BOOLEAN : ListSource(t, source_ok)
  \/ \E t \in ListThreadSet : ListStore(t)

SpecList == ListInit /\ [][NextList]_vars

\* ------------------------------------------------------------------------
\* Claims about CacheService, one call at a time
\* ------------------------------------------------------------------------

\* C1: a set of (key, v) followed immediately by a get of the same key
\* returns v, whatever the Redis backend did during either call.
C1_SetThenGetReturnsValue ==
  (last.op = "get" /\ prev.op = "set" /\ prev.key = last.key)
    => (~last.ret_none /\ last.ret_val = prev.val)

\* C2: once the ttl passed to the latest set of a key has elapsed on the
\* clock, a get of that key returns None.
C2_GetAbsentAfterTtl ==
  (/\ last.op = "get"
   /\ last.key \in DOMAIN lastSet
   /\ now - lastSet[last.key].at >= lastSet[last.key].ttl)
    => last.ret_none

\* C4: a Redis failure during get, set, clear or get_stats never leaves the
\* call as an exception: get returns None or the in-process value, set
\* returns True after writing the in-process tier, clear returns False,
\* get_stats returns its dict with redis_keys = 0.
C4_BackendFailureAbsorbed ==
  last.fail =>
    /\ ~last.raised
    /\ last.op = "get" =>
         \/ last.ret_none
         \/ /\ last.key \in DOMAIN memory_cache
            /\ memory_cache[last.key] = last.ret_val
    /\ last.op = "set" =>
         /\ last.ret_bool
         /\ last.key \in DOMAIN memory_cache
         /\ memory_cache[last.key] = last.val
    /\ last.op \in {"clear", "clear_cache"} => ~last.ret_bool
    /\ last.op = "get_stats" =>
         /\ last.stats.redis_enabled
         /\ last.stats.redis_keys = 0
         /\ last.stats.memory_cache_size = Cardinality(DOMAIN memory_cache)

\* C4 witness: with Redis failing, a get returned the in-process value
C4_Witness ==
  /\ last.fail
  /\ last.op = "get"
  /\ ~last.ret_none
  /\ last.ret_val = <<2, 1>>

\* C7: after clear_cache(market) returned True for a market, no result
\* cached for that market is left in the Redis tier or the in-process tier.
C7_ClearCacheForcesAbsence ==
  (last.op = "clear_cache" /\ last.ret_bool /\ last.key # <<>>)
    => \A p \in ParamSets :
         MarketOf(p) = last.key =>
           /\ ~RedisLive(redis_store, KeyOf[p], now)
           /\ KeyOf[p] \notin DOMAIN memory_cache

\* C8: after clear(pattern) returned True no key matching the pattern (for
\* clear() with no pattern: no market_performance key) is left in the Redis
\* tier or the in-process tier.
C8_ClearRemovesMatchingKeys ==
  (last.op = "clear" /\ last.ret_bool)
    => LET pattern == IF last.key # <<>> THEN last.key ELSE AllPattern
       IN \A k \in AllKeys :
            GlobMatch(pattern, k) =>
              /\ ~RedisLive(redis_store, k, now)
              /\ k \notin DOMAIN memory_cache

\* ------------------------------------------------------------------------
\* Claims about concurrent requests
\* ------------------------------------------------------------------------

\* C3: with get and set run concurrently by several threads, no call raises
\* and, once every call has returned, memory_cache and cache_timestamps have
\* the same keys.
C3_ConcurrentGetSetNoCorruption ==
  /\ \A t \in Threads : ~cthr[t].raised
  /\ (\A t \in Threads : cthr[t].pc = "idle")
       => DOMAIN memory_cache = DOMAIN cache_timestamps

FastAllIdle == \A t \in FastThreadSet : fthr[t].pc = "idle"

\* C5: with one call in flight at a time, once get_market_performance_fast
\* has returned or raised, max_tickers, chunk_size and max_chunks are what
\* they were when the call began.
C5_FastRestoresLimits ==
  FastAllIdle =>
    \A t \in FastThreadSet :
      fthr[t].result # "none"
        => <<max_tickers, chunk_size, max_chunks>> = fthr[t].before

\* C5 witness: a call whose inner get_market_performance raised has ended
\* with the limits restored
C5_Witness ==
  /\ FastAllIdle
  /\ \E t \in FastThreadSet :
       /\ fthr[t].result = "raised"
       /\ fthr[t].before = <<max_tickers, chunk_size, max_chunks>>

\* C6: once all overlapping get_market_performance_fast calls have finished,
\* the limits equal the configured values again.
C6_OverlappingFastRestoresLimits ==
  FastAllIdle =>
    /\ max_tickers = PERFORMANCE_MAX_TICKERS
    /\ chunk_size = PERFORMANCE_CHUNK_SIZE
    /\ max_chunks = PERFORMANCE_MAX_CHUNKS

\* ------------------------------------------------------------------------
\* Claims about one screening run
\* ------------------------------------------------------------------------
\* a symbol whose performance is defined and passes the outlier filter
Eligible(ticker) ==
  LET closes == ValidCloses(SeriesOf(ticker))
  IN /\ closes # <<>>
     /\ InRange(Performance(closes[1], closes[Len(closes)]))

CollectedTickers ==
  {all_performance_data[j].ticker : j \in 1..Len(all_performance_data)}

FailedChunks == {k \in 1..Len(run.chunks) : run.chunks[k].outcome = "failed"}

DataChunks == {k \in 1..Len(run.chunks) : run.chunks[k].outcome = "data"}

\* C9: when the download of a chunk raised on both attempts, the run still
\* went on to every following chunk (unless max_chunks chunks were already
\* processed), and every eligible symbol of every chunk that was downloaded
\* is among the collected records.
C9_FailedChunkDoesNotAbortRun ==
  (run.pc = "done" /\ run.path = "us" /\ FailedChunks # {}) =>
    /\ \A s \in 0..(run.limited - 1) :
         s % chunk_size = 0 =>
           \/ \E k \in 1..Len(run.chunks) : run.chunks[k].start = s
           \/ run.processed_chunks >= max_chunks
    /\ \A k \in DataChunks :
         \A t \in (run.chunks[k].start + 1)..
                  Min(run.chunks[k].start + chunk_size, run.limited) :
           Eligible(t) => t \in CollectedTickers

\* C9 witness: a finished run of 5 chunks, 1 failed and 4 downloaded, the
\* failed one not the last
C9_Witness ==
  /\ run.pc = "done"
  /\ run.path = "us"
  /\ Len(run.chunks) = 5
  /\ Cardinality(FailedChunks) = 1
  /\ Cardinality(DataChunks) = 4
  /\ run.chunks[2].outcome = "failed"
  /\ 249 \in CollectedTickers

\* C10: in a run the symbols considered never exceed max_tickers and the
\* chunks fetched, failed and empty ones included, never exceed max_chunks.
C10_CeilingsBoundRun ==
  run.pc # "idle" =>
    /\ run.limited <= max_tickers
    /\ run.path = "us" => run.fetched <= max_chunks

\* ------------------------------------------------------------------------
\* Claims about get_market_performance and find_fluctuation_stocks
\* ------------------------------------------------------------------------
\* C11: a get_market_performance call whose cache lookup hit returns the
\* cached value, and between the lookup and the return it resolved no
\* listing, fetched no prices and wrote nothing to the cache.
C11_CacheHitReturnsDirectly ==
  (gmp.pc = "return" /\ gmp.hit) =>
    /\ gmp.result = gmp.cached
    /\ ~gmp.raised
    /\ gmp.listing_calls = 0
    /\ gmp.set_calls = 0
    /\ run = IdleRun
    /\ all_performance_data = <<>>

\* C11 witness: the second of two requests is about to return a non-empty
\* result it found in the cache
C11_Witness ==
  /\ gmp.pc = "return"
  /\ gmp.hit
  /\ gmp.requests = 1
  /\ gmp.result # EmptyResult
  /\ gmp.result = gmp.cached

\* C12: when the listing is empty (unknown market, listing source
\* unreachable) or no fetch brought a record, get_market_performance returns
\* the empty structure and does not raise; find_fluctuation_stocks returns
\* the empty list when its listing is empty or every fetch failed.
C12_NoDataGivesEmptyResult ==
  /\ (/\ gmp.pc = "return"
      /\ gmp.listing_calls = 1
      /\ gmp.listing = 0 \/ (run.pc = "done" /\ all_performance_data = <<>>))
       => (~gmp.raised /\ gmp.result = EmptyResult)
  /\ (/\ fluct.pc = "return"
      /\ fluct.series = <<>> \/ fluct.fetched = 0)
       => (~fluct.raised /\ fluct.result = <<>>)

\* C12 witness: a find_fluctuation_stocks call whose fetches all failed has
\* returned the empty list, and a get_market_performance call whose only
\* chunk failed on both attempts is about to return the empty structure
C12_Witness ==
  /\ fluct.calls = 1
  /\ fluct.series # <<>>
  /\ fluct.fetched = 0
  /\ fluct.result = <<>>
  /\ gmp.pc = "return"
  /\ gmp.listing > 0
  /\ run.pc = "done"
  /\ Len(run.chunks) = 1
  /\ run.chunks[1].outcome = "failed"
  /\ gmp.result = EmptyResult
  /\ ~gmp.raised

\* C15: with Redis unreachable, from the start or during the call, a
\* get_market_performance request does not raise, and get_stats reports
\* redis_enabled False.
C15_UnreachableBackendReported ==
  /\ (gmp.pc = "return" /\ (~enabled \/ gmp.redis_failed)) => ~gmp.raised
  /\ (last.op = "get_stats" /\ (~enabled \/ last.fail))
       => ~last.stats.redis_enabled

\* ------------------------------------------------------------------------
\* Claims about the API boundary
\* ------------------------------------------------------------------------
\* the request in hand has a malformed date, a period of more than 365
\* days, or a top_n above the limit of the request schema
RequestInvalid ==
  LET start_dt == Strptime(DateChars(ArgOf(api.p, "start_date")))
      end_dt == Strptime(DateChars(ArgOf(api.p, "end_date")))
  IN \/ ~start_dt.ok
     \/ ~end_dt.ok
     \/ end_dt.day - start_dt.day > 365
     \/ api.top_n > 20

\* C13: at both endpoints an invalid request is answered with a client
\* error, and no service call (cache lookup, listing, fetch) is made for it.
C13_InvalidRequestRejectedFirst ==
  (api.pc # "idle" /\ RequestInvalid) =>
    /\ api.pc = "responded" => api.status \in {400, 422}
    /\ gmp.pc = "idle"
    /\ gmp.requests = api.base

\* C14: a request whose computation outlasted the budget is answered with
\* the timeout status (408), not the no-data (404) or internal-error (500)
\* status, and carries no result.
C14_TimeoutDistinguishable ==
  api.timed_out => (api.status = 408 /\ api.body # "result")

\* ------------------------------------------------------------------------
\* Claims about key derivation and ranking
\* ------------------------------------------------------------------------
\* C16: _generate_key gives the same key for the same keyword arguments
\* whatever the order they are supplied in.
C16_KeyIndependentOfOrder ==
  keyq.pc = "done" => keyq.key_first = keyq.key_second

\* C16 witness: the key was derived for arguments supplied in one order and
\* in the reverse order
C16_Witness ==
  /\ keyq.pc = "done"
  /\ keyq.first = <<1, 2, 3, 4>>
  /\ keyq.second = <<4, 3, 2, 1>>
  /\ keyq.key_first = keyq.key_second
  /\ Len(keyq.key_first) = Len(PrefixText) + 9

\* C17: top_performers is the first top_n rows of the table sorted by
\* performance descending, bottom_performers the last top_n rows of that
\* order sorted ascending; for [10, -5, 40, 0, 40] and top_n = 2 the top is
\* the two rows of 40 in their input order (tickers 3, 5) and the bottom is
\* [-5, 0].
C17_RankingWithStableTies ==
  rank.pc = "done" =>
    /\ \A i, j \in 1..Len(rank.sorted) :
         i < j => rank.sorted[i].performance >= rank.sorted[j].performance
    /\ rank.top_performers = HeadRows(rank.sorted, rank.top_n)
    /\ \A i, j \in 1..Len(rank.bottom_performers) :
         i < j => rank.bottom_performers[i].performance
                    <= rank.bottom_performers[j].performance
    /\ {rank.bottom_performers[i] : i \in 1..Len(rank.bottom_performers)}
         = {rank.sorted[i] : i \in (Len(rank.sorted) - Len(rank.bottom_performers) + 1)
                                     ..Len(rank.sorted)}
    /\ (rank.table = TableOf(<<1000, -500, 4000, 0, 4000>>) /\ rank.top_n = 2)
         => /\ rank.top_performers =
                 <<[ticker |-> 3, performance |-> 4000],
                   [ticker |-> 5, performance |-> 4000]>>
            /\ rank.bottom_performers =
                 <<[ticker |-> 2, performance |-> -500],
                   [ticker |-> 4, performance |-> 0]>>

\* the tickers a finished run computed a performance for
Computed ==
  IF run.path = "us"
  THEN {t \in 1..run.limited :
          /\ \E k \in DataChunks :
               /\ t > run.chunks[k].start
               /\ t <= run.chunks[k].start + chunk_size
          /\ ValidCloses(SeriesOf(t)) # <<>>}
  ELSE {t \in 1..run.limited :
          ~KRFetchRaises(t) /\ Len(ValidCloses(SeriesOf(t))) > 1}

\* the performance of a ticker, in hundredths of a percent
PerformanceOf(t) ==
  LET closes == ValidCloses(SeriesOf(t))
  IN ((closes[Len(closes)] - closes[1]) * 10000) \div closes[1]

\* C18: in both paths a performance of exactly -90 or exactly 900 is kept
\* as a record, one of -90.01 or 900.01 is not, and no record lies outside
\* [-90, 900].
C18_OutlierFilterInclusive ==
  run.pc = "done" =>
    /\ \A t \in Computed :
         PerformanceOf(t) \in {-9000, 90000} => t \in CollectedTickers
    /\ \A t \in Computed :
         PerformanceOf(t) \in {-9001, 90001} => t \notin CollectedTickers
    /\ \A k \in 1..Len(all_performance_data) :
         /\ all_performance_data[k].performance >= -9000
         /\ all_performance_data[k].performance <= 90000

\* C18 witness: a finished domestic run kept ticker 1 (+900) and ticker 5
\* (-90) and dropped ticker 2 (-90.01) and ticker 6 (+900.01)
C18_Witness ==
  /\ run.pc = "done"
  /\ run.path = "kr"
  /\ {1, 2, 5, 6} \subseteq Computed
  /\ PerformanceOf(1) = 90000 /\ 1 \in CollectedTickers
  /\ PerformanceOf(5) = -9000 /\ 5 \in CollectedTickers
  /\ PerformanceOf(2) = -9001 /\ 2 \notin CollectedTickers
  /\ PerformanceOf(6) = 90001 /\ 6 \notin CollectedTickers

\* ------------------------------------------------------------------------
\* Claims about the fluctuation detector
\* ------------------------------------------------------------------------
\* the call in hand fetched the nine closes 100 100 100 100 100 75 70 95 110
\* for its only ticker, with decline_period 5, decline_rate -20,
\* rebound_period 3 and rebound_rate 20
NineClosesCase ==
  /\ fluct.pc = "return"
  /\ fluct.series = <<DeclineAndRecovery>>
  /\ fluct.fetched = 1
  /\ fluct.decline_period = 5 /\ fluct.decline_rate = -20
  /\ fluct.rebound_period = 3 /\ fluct.rebound_rate = 20

\* C19 as stated: for the nine closes the detector emits one event, with
\* trough price 75 and rebound price 110.
C19_OneEvent ==
  NineClosesCase =>
    /\ Len(fluct.all_found_events) = 1
    /\ fluct.all_found_events[1].trough_price = 75
    /\ fluct.all_found_events[1].rebound_price = 110

\* C19 amended: for the nine closes the detector emits two overlapping
\* events: trough 75 on day 6 (index 5) and trough 70 on day 7 (index 6),
\* both with rebound price 110 on day 9 (index 8).
C19_TwoOverlappingEvents ==
  NineClosesCase =>
    /\ Len(fluct.all_found_events) = 2
    /\ fluct.all_found_events[1].trough_date = 6
    /\ fluct.all_found_events[1].trough_price = 75
    /\ fluct.all_found_events[1].rebound_date = 9
    /\ fluct.all_found_events[1].rebound_price = 110
    /\ fluct.all_found_events[2].trough_date = 7
    /\ fluct.all_found_events[2].trough_price = 70
    /\ fluct.all_found_events[2].rebound_date = 9
    /\ fluct.all_found_events[2].rebound_price = 110

\* C19 witness: such a call is about to return its one summary
C19_Witness == NineClosesCase /\ Len(fluct.result) = 1

\* C20: in every summary returned, occurrence_count is the number of its
\* events, the events are in descending order of trough_date, and the four
\* recent_ fields are those of the first event.
C20_SummaryInvariant ==
  fluct.pc = "return" =>
    \A k \in 1..Len(fluct.result) :
      LET s == fluct.result[k]
      IN /\ s.occurrence_count = Len(s.events)
         /\ s.events # <<>>
         /\ \A i, j \in 1..Len(s.events) :
              i < j => s.events[i].trough_date > s.events[j].trough_date
         /\ s.recent_trough_date = s.events[1].trough_date
         /\ s.recent_trough_price = s.events[1].trough_price
         /\ s.recent_rebound_date = s.events[1].rebound_date
         /\ s.recent_rebound_performance = s.events[1].rebound_performance

\* C20 witness: a result of two summaries, the first with two events whose
\* trough prices differ
C20_Witness ==
  /\ fluct.pc = "return"
  /\ Len(fluct.result) = 2
  /\ fluct.result[1].occurrence_count = 2
  /\ fluct.result[1].recent_trough_price = 70
  /\ fluct.result[1].events[2].trough_price = 75

\* the position in the input of the first event of a symbol
FirstEventOf(ticker) ==
  CHOOSE k \in 1..Len(fluct.all_found_events) :
    /\ fluct.all_found_events[k].ticker = ticker
    /\ \A j \in 1..(k - 1) : fluct.all_found_events[j].ticker # ticker

\* C21: the summaries returned are in descending order of occurrence_count,
\* and of two summaries with the same occurrence_count the one whose symbol
\* has the earlier first event in the input comes first.
C21_TiesInInputOrder ==
  (fluct.pc = "return" /\ fluct.all_found_events # <<>>
      /\ Len(fluct.result) > 0) =>
    \A k, l \in 1..Len(fluct.result) :
      k < l =>
        /\ fluct.result[k].occurrence_count >= fluct.result[l].occurrence_count
        /\ fluct.result[k].occurrence_count = fluct.result[l].occurrence_count
             => FirstEventOf(fluct.result[k].ticker)
                  < FirstEventOf(fluct.result[l].ticker)

\* the rule as stated, for row i of a series: the decline over
\* decline_period rows is at most decline_rate, some price of the forward
\* window exceeds the trough price, and the rebound to the maximum of the
\* window is at least rebound_rate
StatedRule(series, i, decline_period, decline_rate, rebound_period, rebound_rate) ==
  LET p == series[i].close
      window == {j \in 1..Len(series) :
                   /\ series[j].date > series[i].date
                   /\ series[j].date <= series[i].date + rebound_period}
  IN /\ (p - series[i - decline_period].close) * 100
          <= decline_rate * series[i - decline_period].close
     /\ \E j \in window : series[j].close > p
     /\ \E j \in window :
          /\ \A k \in window : series[k].close <= series[j].close
          /\ (series[j].close - p) * 100 >= rebound_rate * p

\* C23: when every series of the listing was fetched, an event with its
\* trough at row i of a ticker's series is among the events found if and
\* only if the stated rule holds at row i, in the KR and the US path.
C23_EventIffStatedRule ==
  (fluct.pc = "return" /\ fluct.fetched = Len(fluct.series)) =>
    \A t \in 1..Len(fluct.series) :
      \A i \in (fluct.decline_period + 1)..Len(fluct.series[t]) :
        (\E k \in 1..Len(fluct.all_found_events) :
            /\ fluct.all_found_events[k].ticker = fluct.symbols[t]
            /\ fluct.all_found_events[k].trough_date
                 = fluct.series[t][i].date)
          <=> StatedRule(fluct.series[t], i, fluct.decline_period,
                         fluct.decline_rate, fluct.rebound_period,
                         fluct.rebound_rate)

\* ------------------------------------------------------------------------
\* Claims about the full and the fast variant on one service instance
\* ------------------------------------------------------------------------
\* the ceilings PerformanceService.__init__ takes from the settings
ConfiguredCeilings ==
  {<<"max_tickers", PERFORMANCE_MAX_TICKERS>>,
   <<"chunk_size", PERFORMANCE_CHUNK_SIZE>>,
   <<"max_chunks", PERFORMANCE_MAX_CHUNKS>>}

\* C22: every result a direct get_market_performance call returns was
\* computed by a run that read the configured ceilings only, whether the
\* call computed it or took it from the cache, with fast calls in flight
\* or made before.
C22_FullVariantUnderConfiguredCeilings ==
  (gmp.pc = "return" /\ gmp.owner = 0 /\ ~gmp.raised) =>
    gmp.ceilings \subseteq ConfiguredCeilings


\* ------------------------------------------------------------------------
\* C24: a record is produced for a symbol only if that symbol's own price
\* series has at least two valid points and a first close above zero, in
\* the domestic and in the chunked foreign path alike
\* ------------------------------------------------------------------------
C24_RecordNeedsTwoPoints ==
  \A k \in 1..Len(all_performance_data) :
    LET closes == ValidCloses(SeriesOf(all_performance_data[k].ticker))
    IN Len(closes) >= 2 /\ closes[1] > 0


C26_BoundedRetrySequentialChunks ==
  run.path = "us" =>
    /\ run.downloads <= 2
    /\ (run.pc = "us_download" /\ run.downloads = 1) =>
          run.attempt = 1 /\ run.data = "none"
    /\ (run.pc = "us_process" /\ run.data = "none") => run.downloads = 2
    /\ \A k \in 1..Len(run.chunks) :
         run.chunks[k].outcome = "failed" =>
           \A t \in (run.chunks[k].start + 1)..(run.chunks[k].start + run.step) :
             t \notin CollectedTickers
    /\ run.fetched = Len(run.chunks)
                       + (IF run.pc \in {"us_download", "us_process"}
                          THEN 1 ELSE 0)
    /\ \A k \in 1..Len(run.chunks) : run.chunks[k].start = (k - 1) * run.step

\* the first attempt for a chunk is about to be made right after the chunk
\* before it was given up on its second raise
C26_Witness ==
  /\ run.pc = "us_download"
  /\ run.downloads = 0
  /\ Len(run.chunks) > 0
  /\ run.chunks[Len(run.chunks)].outcome = "failed"


\* ------------------------------------------------------------------------
\* C27: a get of a key never returns a value older than the one written by
\* the most recent set of that key: it returns that value or None, whatever
\* the Redis backend did during each call
\* ------------------------------------------------------------------------
C27_GetNeverOlderThanLatestSet ==
  (last.op = "get" /\ prev.op = "set" /\ prev.key = last.key)
    => (last.ret_none \/ last.ret_val = prev.val)


\* ------------------------------------------------------------------------
\* C28 as stated: universe resolution for a market reaches the upstream
\* listing source at most once per PerformanceService instance
\* ------------------------------------------------------------------------
C28_SourceReachedAtMostOnce ==
  \A m \in ListedMarkets : lst.reached[m] <= 1

\* C28, amended: the listing source is reached for a market at most once
\* for each time the market enters the lru_cache anew (at first and after
\* each eviction as least recently used of LruMaxSize) and once for each
\* miss that overlaps another call in flight for the same market; a hit
\* returns the memoized entry, the empty table of a failed source included
C28_MemoizedWhileKept ==
  /\ [](\A m \in ListedMarkets :
          lst.reached[m] <= 1 + lst.evicted[m] + lst.overlaps[m])
  /\ [][\A t \in ListThreadSet :
          (lst'.thr[t].calls = lst.thr[t].calls + 1 /\ lst'.thr[t].hit) =>
            /\ lst'.thr[t].market \in DOMAIN lst.lru
            /\ lst'.thr[t].n = lst.lru[lst'.thr[t].market]
            /\ lst'.reached = lst.reached]_vars

\* both threads were served the memoized empty table of a listing source
\* that failed once
C28_Witness ==
  /\ lst.reached[KOSPI] = 1
  /\ KOSPI \in DOMAIN lst.lru
  /\ lst.lru[KOSPI] = 0
  /\ \A t \in ListThreadSet :
       /\ lst.thr[t].pc = "idle"
       /\ lst.thr[t].hit
       /\ lst.thr[t].market = KOSPI
       /\ lst.thr[t].n = 0


\* ------------------------------------------------------------------------
\* C29: get_market_performance reaches its cache store on every path that
\* gets past universe resolution and on no other path, so the empty result
\* of a total fetch failure is stored and an identical later request within
\* the TTL is served from the cache instead of being computed again, while
\* the empty result of an empty universe is returned without a cache write.
\* (The clock stands still between the requests, so a later request is
\* within the TTL.)
\* ------------------------------------------------------------------------
C29_StoreExactlyPastUniverse ==
  /\ (gmp.pc = "return" /\ ~gmp.raised) =>
        /\ gmp.set_calls = (IF gmp.listing > 0 THEN 1 ELSE 0)
        /\ gmp.hit => gmp.listing_calls = 0
  /\ (gmp.pc = "listing" /\ GmpKeyOf[gmp.p] \in DOMAIN gmp.stored)
        => gmp.stored[GmpKeyOf[gmp.p]] # EmptyResult


\* ------------------------------------------------------------------------
\* C30: after a timeout was answered for a performance request, the worker
\* runs on until its computation is finished and then still stores its
\* result in the cache (the fast variant restores the overridden limits
\* only then), so a later identical request within the TTL is served from
\* that entry, whatever Redis does during its lookup.  A worker whose
\* universe was empty has no result to store.
\* ------------------------------------------------------------------------
C30_AbandonedWorkerStillStores ==
  /\ (/\ api.timed_out
      /\ api.endpoint = "fast"
      /\ gmp.pc # "idle"
      /\ gmp.requests = api.base)
       => (/\ fthr[1].pc = "f_inner"
           /\ <<max_tickers, chunk_size, max_chunks>> =
                <<FastMaxTickers, FastChunkSize, FastMaxChunks>>)
  /\ (/\ api.timed_out
      /\ gmp.pc = "idle"
      /\ gmp.requests > api.base
      /\ gmp.listing > 0
      /\ ~gmp.raised)
       => /\ gmp.set_calls = 1
          /\ GmpKeyOf[api.p] \in DOMAIN gmp.stored
          /\ gmp.stored[GmpKeyOf[api.p]] = gmp.result
          /\ \A fail \in {f \in BOOLEAN : f => enabled} :
               LET g == GetEffect(enabled, redis_store, memory_cache,
                                  cache_timestamps, now, GmpKeyOf[api.p], fail)
               IN ~g.ret_none /\ g.ret_val = gmp.result

====
